---- MODULE Spec2Model ----
(***************************************************************************)
(* Model of the dbus-stream client library: the big-endian encoder, the    *)
(* two message emitters (Message::marshal_be and                           *)
(* Connection::marshall_message with Header::marshall and                  *)
(* Body::marshall_be), the connection's serial counter and the             *)
(* authentication handshake of Connection::new_system.                     *)
(*                                                                         *)
(* Bytes are numbers 0..255 and a Vec<u8> is a sequence of them.  Rust     *)
(* indexes from 0 and TLA+ from 1: message offset k is buf[k + 1], and the *)
(* offset of the next byte to be written is Len(buf).                      *)
(***************************************************************************)
EXTENDS Integers, Sequences, FiniteSets, TLC

VARIABLES
    msg,      \* the Message / method call handed to the emitters
    out,      \* result of Message::marshal_be(msg)
    serial,   \* Connection.serial, a u32 kept as two 16-bit halves
    sent,     \* results of the Connection::marshall_message calls so far
    pc,       \* position of Connection::new_system
    uid,      \* the process's uid (nix::unistd::getuid)
    written,  \* every byte handed to conn.writer (a BufWriter) so far
    wire,     \* the bytes the transport has accepted from the BufWriter
    reply,    \* what auth_read_line read and returned
    result,   \* what new_system returned ("none" while it is running)
    dbus_value,  \* the Type handed to an Encoder
    encoder,  \* the Encoder before that marshal_be call
    encoded,  \* the Encoder after it
    input,    \* the type and the byte slice handed to an unmarshal_be
    unmarshalled,  \* what that unmarshal_be returned
    unmarshalled_message,  \* what unmarshal_message returned, and how far it got
    debug_assertions,  \* whether the build has cfg(debug_assertions)
    message_data,    \* the slice I::new and Decoder::new were given
    cursor_i,        \* the I that the nom operations chip away at
    cursor_decoder,  \* the Decoder that they chip away at
    last_op          \* the last operation on one of the two, and what it returned

vars == <<msg, out, serial, sent, pc, uid, written, wire, reply, result,
          dbus_value, encoder, encoded, input, unmarshalled, unmarshalled_message,
          debug_assertions, message_data, cursor_i, cursor_decoder, last_op>>

msgVars == <<msg, out, serial, sent>>
authVars == <<pc, uid, written, wire, reply, result>>
codecVars == <<dbus_value, encoder, encoded, input, unmarshalled, unmarshalled_message>>
buildVars == <<debug_assertions>>
inputVars == <<message_data, cursor_i, cursor_decoder, last_op>>

-----------------------------------------------------------------------------
(* Bounds of the model.                                                    *)

\* Longest object path of a drawn message, in bytes.
MaxPathLen == 2
\* Most Connection::marshall_message calls made on one connection in a run.
MaxSends == 2
\* Most bytes a failing flush still hands to the transport.
MaxPartial == 2

-----------------------------------------------------------------------------
(* Plain helpers on byte sequences.                                        *)

Min(a, b) == IF a < b THEN a ELSE b

\* The bytes of a Vec from 0-based offset `from` (inclusive) to `to` (exclusive).
Slice(buf, from, to) == SubSeq(buf, from + 1, to)

IsPrefix(p, s) == Len(p) <= Len(s) /\ SubSeq(s, 1, Len(p)) = p

\* uN::to_be_bytes for a value below 2^31: the n low-order bytes, most significant first.
RECURSIVE to_be_bytes(_, _)
to_be_bytes(value, n) ==
    IF n = 0 THEN <<>> ELSE Append(to_be_bytes(value \div 256, n - 1), value % 256)

\* uN::from_be_bytes, for checking what a length or serial field holds.
RECURSIVE from_be_bytes(_)
from_be_bytes(bytes) ==
    IF bytes = <<>> THEN 0
    ELSE 256 * from_be_bytes(SubSeq(bytes, 1, Len(bytes) - 1)) + bytes[Len(bytes)]

-----------------------------------------------------------------------------
(* u32 values.  TLC's integers stop at 2^31 - 1, so a u32 is kept as its   *)
(* two 16-bit halves; every operation below is exact for the full 32 bits. *)

U16Modulus == 256 * 256

U32(hi, lo) == [hi |-> hi, lo |-> lo]
U32Zero == U32(0, 0)
U32One == U32(0, 1)
U32MAX == U32(U16Modulus - 1, U16Modulus - 1)

U32Less(a, b) == a.hi < b.hi \/ (a.hi = b.hi /\ a.lo < b.lo)

\* a + 1 as a mathematical integer fits in 32 bits.
U32CanIncrement(a) == a # U32MAX

\* u32::wrapping_add(a, 1): the value `a += 1` leaves when overflow checks are off.
U32WrappingIncrement(a) ==
    IF a.lo + 1 < U16Modulus THEN U32(a.hi, a.lo + 1)
    ELSE U32((a.hi + 1) % U16Modulus, 0)

\* u32::to_be_bytes
u32_to_be_bytes(a) == to_be_bytes(a.hi, 2) \o to_be_bytes(a.lo, 2)

-----------------------------------------------------------------------------
(* SingleCompleteTypeSignature: [k |-> variant, sub |-> inner signatures]. *)

Sig(k, sub) == [k |-> k, sub |-> sub]
SigByte == Sig("Byte", <<>>)
SigBoolean == Sig("Boolean", <<>>)
SigInt16 == Sig("Int16", <<>>)
SigUint16 == Sig("Uint16", <<>>)
SigInt32 == Sig("Int32", <<>>)
SigUint32 == Sig("Uint32", <<>>)
SigInt64 == Sig("Int64", <<>>)
SigUint64 == Sig("Uint64", <<>>)
SigString == Sig("String", <<>>)
SigObjectPath == Sig("ObjectPath", <<>>)
SigSignature == Sig("Signature", <<>>)
SigUnixFileDescriptor == Sig("UnixFileDescriptor", <<>>)
SigVariant == Sig("Variant", <<>>)
SigArray(inner) == Sig("Array", <<inner>>)
SigStruct(fields) == Sig("Struct", fields)
SigDictEntry(key, value) == Sig("DictEntry", <<key, value>>)

\* Signature of a header field, which is always STRUCT of (BYTE, VARIANT).
HEADER_FIELD_SIGNATURE == SigStruct(<<SigByte, SigVariant>>)

\* A boundary of 1 for every type: no padding in front of any element.
marshalling_boundary_one(sig) == 1

\* SingleCompleteTypeSignature::marshalling_boundary
marshalling_boundary(sig) ==
    CASE sig.k = "Byte" -> 1
      [] sig.k = "Boolean" -> 4
      [] sig.k \in {"Int16", "Uint16"} -> 2
      [] sig.k \in {"Int32", "Uint32"} -> 4
      [] sig.k \in {"Int64", "Uint64", "Double"} -> 8
      [] sig.k \in {"String", "ObjectPath"} -> 4
      [] sig.k = "Signature" -> 1
      [] sig.k = "UnixFileDescriptor" -> 4
      [] sig.k = "Array" -> 4
      [] sig.k = "Struct" -> 8
      [] sig.k = "Variant" -> 1
      [] sig.k = "DictEntry" -> 8

\* SingleCompleteTypeSignature::serialize: the ASCII text of a signature.
RECURSIVE serialize(_)
RECURSIVE serialize_all(_)
serialize(sig) ==
    CASE sig.k = "Byte" -> <<121>>
      [] sig.k = "Boolean" -> <<98>>
      [] sig.k = "Int16" -> <<110>>
      [] sig.k = "Uint16" -> <<113>>
      [] sig.k = "Int32" -> <<105>>
      [] sig.k = "Uint32" -> <<117>>
      [] sig.k = "Int64" -> <<120>>
      [] sig.k = "Uint64" -> <<116>>
      [] sig.k = "Double" -> <<100>>
      [] sig.k = "String" -> <<115>>
      [] sig.k = "ObjectPath" -> <<111>>
      [] sig.k = "Signature" -> <<103>>
      [] sig.k = "UnixFileDescriptor" -> <<104>>
      [] sig.k = "Array" -> <<97>> \o serialize(sig.sub[1])
      [] sig.k = "Struct" -> <<40>> \o serialize_all(sig.sub) \o <<41>>
      [] sig.k = "Variant" -> <<118>>
      [] sig.k = "DictEntry" ->
            <<97, 123>> \o serialize(sig.sub[1]) \o serialize(sig.sub[2]) \o <<125>>
serialize_all(sigs) ==
    IF sigs = <<>> THEN <<>> ELSE serialize(Head(sigs)) \o serialize_all(Tail(sigs))

-----------------------------------------------------------------------------
(* Type: a D-Bus value.  One record shape for every variant:               *)
(*   t    the variant, n its number (Byte, Boolean as 0/1, integers),      *)
(*   s    its text (String, ObjectPath), sub its inner values (items of an *)
(*   Array, fields of a Struct, the one value of a Variant), sigs its      *)
(*   signatures (item_type of an Array, vec of a Signature).               *)

Value(t, n, s, sub, sigs) == [t |-> t, n |-> n, s |-> s, sub |-> sub, sigs |-> sigs]
DBusByte(u8) == Value("Byte", u8, <<>>, <<>>, <<>>)
DBusBoolean(b) == Value("Boolean", IF b THEN 1 ELSE 0, <<>>, <<>>, <<>>)
DBusInt16(i16) == Value("Int16", i16, <<>>, <<>>, <<>>)
DBusUint16(u16) == Value("Uint16", u16, <<>>, <<>>, <<>>)
DBusInt32(i32) == Value("Int32", i32, <<>>, <<>>, <<>>)
DBusUint32(u32) == Value("Uint32", u32, <<>>, <<>>, <<>>)
DBusInt64(i64) == Value("Int64", i64, <<>>, <<>>, <<>>)
DBusUint64(u64) == Value("Uint64", u64, <<>>, <<>>, <<>>)
\* An f64 is kept as the 8 bytes of its bit pattern, most significant first.
DBusDouble(f64) == Value("Double", 0, f64, <<>>, <<>>)
DBusString(string) == Value("String", 0, string, <<>>, <<>>)
DBusObjectPath(string) == Value("ObjectPath", 0, string, <<>>, <<>>)
DBusSignature(vec) == Value("Signature", 0, <<>>, <<>>, vec)
DBusUnixFileDescriptor == Value("UnixFileDescriptor", 0, <<>>, <<>>, <<>>)
DBusArray(item_type, items) == Value("Array", 0, <<>>, items, <<item_type>>)
DBusStruct(fields) == Value("Struct", 0, <<>>, fields, <<>>)
DBusVariant(variant) == Value("Variant", 0, <<>>, <<variant>>, <<>>)

\* Type::signature
RECURSIVE signature(_)
RECURSIVE signatures(_)
signature(v) ==
    CASE v.t = "Array" -> SigArray(v.sigs[1])
      [] v.t = "Struct" -> SigStruct(signatures(v.sub))
      [] OTHER -> Sig(v.t, <<>>)
signatures(values) ==
    IF values = <<>> THEN <<>> ELSE <<signature(Head(values))>> \o signatures(Tail(values))

-----------------------------------------------------------------------------
(* Encoder: [st, buf].  st is "ok" while every marshal_be so far returned  *)
(* Ok(()), "err" once one returned Err (the ? operator then skips the      *)
(* rest), "panic" once a todo!() was reached.                              *)

Encoder(buf) == [st |-> "ok", buf |-> buf]
EncoderDefault == Encoder(<<>>)

\* An align that stops at the half of the boundary it is asked for.
align_short(buf, alignment) ==
    LET half == IF alignment > 1 THEN alignment \div 2 ELSE 1
    IN  buf \o [i \in 1..((half - (Len(buf) % half)) % half) |-> 0]

\* An align that never pads further than to a 4-byte boundary.
align_up_to_four(buf, alignment) ==
    LET a == IF alignment > 4 THEN 4 ELSE alignment
    IN  buf \o [i \in 1..((a - (Len(buf) % a)) % a) |-> 0]

\* Encoder::align: push null bytes until the buffer length is aligned.
RECURSIVE align(_, _)
align(buf, alignment) ==
    IF Len(buf) % alignment # 0 THEN align(Append(buf, 0), alignment) ELSE buf

\* Encoder::reserve_n_bytes: push n null bytes (the closure remembers idx = Len(buf)).
reserve_n_bytes(buf, n) == buf \o [i \in 1..n |-> 0]

\* The closure reserve_n_bytes returns: splice `values` over buf[idx .. idx + N].
specify_length(buf, idx, values) ==
    [i \in 1..Len(buf) |->
        IF idx < i /\ i <= idx + Len(values) THEN values[i - idx] ELSE buf[i]]

\* A string whose length field counts the terminating null too.
marshal_string_counting_null(buf, string) ==
    align(buf, 4) \o to_be_bytes(Len(string) + 1, 4) \o string \o <<0>>

\* Marshal<DBusString>: align 4, u32 length, the bytes, a terminating null.
marshal_string(buf, string) ==
    align(buf, 4) \o to_be_bytes(Len(string), 4) \o string \o <<0>>

\* A signature whose length is written modulo 256 and never refused.
marshal_signature_wrapping(enc, vec) ==
    LET text == serialize_all(vec)
    IN  Encoder(enc.buf \o <<Len(text) % 256>> \o text \o <<0>>)

\* Marshal<DBusSignature>: one length byte, the text, a terminating null;
\* Err when the text does not fit the length byte (u8::try_from).
marshal_signature(enc, vec) ==
    LET idx == Len(enc.buf)
        reserved == reserve_n_bytes(enc.buf, 1)
        offset_first_item == Len(reserved)
        withText == reserved \o serialize_all(vec)
        length == Len(withText) - offset_first_item
    IN  IF length > 255 THEN [st |-> "err", buf |-> withText]
        ELSE Encoder(Append(specify_length(withText, idx, to_be_bytes(length, 1)), 0))

\* Marshal<Type>, with Marshal<BasicType> and Marshal<ContainerType> and the
\* implementation for each D-Bus type it dispatches to.
RECURSIVE marshal_be(_, _)
RECURSIVE marshal_all(_, _)
RECURSIVE marshal_items(_, _, _)
marshal_be(enc, v) ==
    IF enc.st # "ok" THEN enc
    ELSE CASE v.t = "Byte" -> Encoder(Append(enc.buf, v.n))
           [] v.t = "Boolean" ->
                Encoder(align(enc.buf, 4) \o to_be_bytes(IF v.n = 1 THEN 1 ELSE 0, 4))
           [] v.t \in {"Int16", "Uint16"} -> Encoder(align(enc.buf, 2) \o to_be_bytes(v.n, 2))
           [] v.t \in {"Int32", "Uint32"} -> Encoder(align(enc.buf, 4) \o to_be_bytes(v.n, 4))
           [] v.t \in {"Int64", "Uint64"} -> Encoder(align(enc.buf, 8) \o to_be_bytes(v.n, 8))
           [] v.t = "Double" -> Encoder(align(enc.buf, 8) \o v.s)
           [] v.t \in {"String", "ObjectPath"} -> Encoder(marshal_string(enc.buf, v.s))
           [] v.t = "Signature" -> marshal_signature(enc, v.sigs)
           [] v.t = "Variant" ->
                marshal_be(marshal_signature(enc, <<signature(v.sub[1])>>), v.sub[1])
           [] v.t = "Array" ->
                LET aligned == align(enc.buf, 4)
                    idx == Len(aligned)
                    padded == align(reserve_n_bytes(aligned, 4),
                                    marshalling_boundary(v.sigs[1]))
                    offset_first_item == Len(padded)
                    items == marshal_items(Encoder(padded), v.sub, v.sigs[1])
                    array_data_length == Len(items.buf) - offset_first_item
                IN  IF items.st # "ok" THEN items
                    ELSE Encoder(specify_length(items.buf, idx,
                                                to_be_bytes(array_data_length, 4)))
           [] v.t = "Struct" -> marshal_all(Encoder(align(enc.buf, 8)), v.sub)
           [] OTHER -> [st |-> "panic", buf |-> enc.buf]
marshal_all(enc, values) ==
    IF values = <<>> THEN enc ELSE marshal_all(marshal_be(enc, Head(values)), Tail(values))
\* The loop over the items of an array: debug_assert_eq!(item.signature(),
\* t.item_type) panics in a build with debug assertions and is no code at all
\* in a build without; then self.marshal_be(item)?.
marshal_items(enc, items, item_type) ==
    IF enc.st # "ok" \/ items = <<>> THEN enc
    ELSE IF debug_assertions /\ signature(Head(items)) # item_type
         THEN [st |-> "panic", buf |-> enc.buf]
         ELSE marshal_items(marshal_be(enc, Head(items)), Tail(items), item_type)

\* Encoder::finish
finish(enc) == enc.buf

-----------------------------------------------------------------------------
(* Message, MessageTypeParam and HeaderField (message_protocol.rs).        *)

\* pub const MAJOR_PROTOCOL_VERSION: u8 = 1
MAJOR_PROTOCOL_VERSION == 1

\* Option<DBusString>
None == [some |-> FALSE, string |-> <<>>]
Some(string) == [some |-> TRUE, string |-> string]

\* MessageType::decimal_value
decimal_value(message_type) ==
    CASE message_type = "MethodCall" -> 1
      [] message_type = "MethodReturn" -> 2
      [] message_type = "Error" -> 3
      [] message_type = "Signal" -> 4

HeaderField(f, inner) == [f |-> f, inner |-> inner]

\* HeaderField::decimal_code
decimal_code(header_field) ==
    CASE header_field.f = "Path" -> 1
      [] header_field.f = "Interface" -> 2
      [] header_field.f = "Member" -> 3
      [] header_field.f = "ErrorName" -> 4
      [] header_field.f = "ReplySerial" -> 5
      [] header_field.f = "Destination" -> 6
      [] header_field.f = "Sender" -> 7
      [] header_field.f = "Signature" -> 8
      [] header_field.f = "UnixFds" -> 9

\* prepare_header_fields: the fields as an Array of Struct(Byte, Variant); the
\* variant is HeaderField::inner_into_variant.
prepare_header_fields(header_fields) ==
    DBusArray(HEADER_FIELD_SIGNATURE,
              [i \in 1..Len(header_fields) |->
                  DBusStruct(<<DBusByte(decimal_code(header_fields[i])),
                               DBusVariant(header_fields[i].inner)>>)])

\* a | b on bytes.
RECURSIVE BitOr(_, _)
BitOr(a, b) ==
    IF a = 0 THEN b
    ELSE IF b = 0 THEN a
    ELSE 2 * BitOr(a \div 2, b \div 2) + (IF a % 2 = 1 \/ b % 2 = 1 THEN 1 ELSE 0)

\* The flags byte whose third bit is taken where the second belongs.
message_flags_wrong_bit(m) ==
    LET f1 == IF m.flag_no_reply_expected THEN BitOr(0, 1) ELSE 0
        f2 == IF m.flag_no_auto_start THEN BitOr(f1, 2) ELSE f1
    IN  IF m.flag_allow_interactive_authorization THEN BitOr(f2, 2) ELSE f2

\* Message::marshal_be, 3rd byte: bitwise OR of the flags that are set.
message_flags(m) ==
    LET f1 == IF m.flag_no_reply_expected THEN BitOr(0, 1) ELSE 0
        f2 == IF m.flag_no_auto_start THEN BitOr(f1, 2) ELSE f1
    IN  IF m.flag_allow_interactive_authorization THEN BitOr(f2, 4) ELSE f2

\* A body length that counts the bytes up to the next 8-byte boundary too.
length_in_bytes_of_message_body_padded(marshalled_body) ==
    Len(align(marshalled_body, 8))

\* let length_in_bytes_of_message_body = u32::try_from(marshalled_body.len())?
\* (a Vec of the model is far shorter than 2^32 bytes, so try_from returns Ok).
length_in_bytes_of_message_body(marshalled_body) == Len(marshalled_body)

\* A body signature that leaves out the arguments behind the first.
body_signature_of_first(arguments) ==
    DBusSignature(signatures(IF arguments = <<>> THEN <<>> ELSE <<Head(arguments)>>))

\* Body::signature
body_signature(arguments) == DBusSignature(signatures(arguments))

\* The header fields without the optional ones.
message_header_fields_mandatory(m) ==
    <<HeaderField("Signature", DBusSignature(signatures(m.body))),
      HeaderField("Path", DBusObjectPath(m.path)),
      HeaderField("Member", DBusString(m.member))>>

\* The header fields Message::marshal_be collects, in its order.
message_header_fields(m) ==
    <<HeaderField("Signature", body_signature(m.body))>>
    \o (IF m.destination.some
        THEN <<HeaderField("Destination", DBusString(m.destination.string))>> ELSE <<>>)
    \o <<HeaderField("Path", DBusObjectPath(m.path)),
         HeaderField("Member", DBusString(m.member))>>
    \o (IF m.interface.some
        THEN <<HeaderField("Interface", DBusString(m.interface.string))>> ELSE <<>>)

\* What an emitter returns: st is "ok" for Ok(message), "err" for Err(_), "panic"
\* for a panic; buf is the message, of which the first header_len bytes are the
\* padded header and the first fields_end the header before its padding.
Emitted(st, buf, fields_end, header_len) ==
    [st |-> st, buf |-> buf, fields_end |-> fields_end, header_len |-> header_len]
NotEmitted(st) == Emitted(st, <<>>, 0, 0)

\* Message::marshal_be
Message_marshal_be(m) ==
    LET body == marshal_all(EncoderDefault, m.body)
        marshalled_body == finish(body)
        fixed == <<66, decimal_value(m.message_type), message_flags(m),
                   MAJOR_PROTOCOL_VERSION>>
                 \o to_be_bytes(length_in_bytes_of_message_body(marshalled_body), 4)
                 \o u32_to_be_bytes(m.serial)
        fields == marshal_be(Encoder(fixed), prepare_header_fields(message_header_fields(m)))
        header == align(fields.buf, 8)
    IN  IF body.st # "ok" THEN NotEmitted(body.st)
        ELSE IF m.message_type # "MethodCall" THEN NotEmitted("panic")
        ELSE IF fields.st # "ok" THEN NotEmitted(fields.st)
        ELSE Emitted("ok", header \o marshalled_body, Len(fields.buf), Len(header))

-----------------------------------------------------------------------------
(* The older emitter: Connection::marshall_message with Header::marshall   *)
(* and Body::marshall_be.                                                  *)

\* Type::marshall_be(&self) -> Result<Vec<u8>>, the method Body::marshall_be and
\* Header::marshall call on a value: it is given the value alone, so it marshals
\* into a buffer of its own, starting at offset 0.
Type_marshall_be(v) == marshal_be(EncoderDefault, v)

\* Body::marshall_be: the arguments' own buffers, one after the other.
RECURSIVE Body_marshall_be(_)
Body_marshall_be(arguments) ==
    IF arguments = <<>> THEN EncoderDefault
    ELSE LET arg == Type_marshall_be(Head(arguments))
             rest == Body_marshall_be(Tail(arguments))
         IN  IF arg.st # "ok" THEN arg
             ELSE IF rest.st # "ok" THEN rest
             ELSE Encoder(arg.buf \o rest.buf)

\* HeaderFlag::hex_value
hex_value(flag) ==
    CASE flag = "NoReplyExpected" -> 1
      [] flag = "NoAutoStart" -> 2
      [] flag = "AllowInteractiveAuthorization" -> 4

\* for flag in &self.flags { flags |= flag.hex_value(); }
RECURSIVE header_flags(_)
header_flags(flags) ==
    IF flags = {} THEN 0
    ELSE LET flag == CHOOSE f \in flags : TRUE
         IN  BitOr(header_flags(flags \ {flag}), hex_value(flag))

\* Header::marshall: the fixed 12 bytes, the header fields as an array that is
\* marshalled on its own and then appended, null bytes up to an 8-byte boundary.
Header_marshall(header) ==
    LET v == <<66, decimal_value(header.message_type), header_flags(header.flags),
               MAJOR_PROTOCOL_VERSION>>
             \o to_be_bytes(header.length_in_bytes_of_message_body, 4)
             \o u32_to_be_bytes(header.serial)
        header_fields == Type_marshall_be(prepare_header_fields(header.header_fields))
        fields == v \o header_fields.buf
    IN  IF header_fields.st # "ok" THEN NotEmitted(header_fields.st)
        ELSE Emitted("ok", align(fields, 8), Len(fields), Len(align(fields, 8)))

\* A usize kept as [hi, lo] with lo below 2^16; hi is not bounded by 2^16
\* as that of a u32 is.
usize(hi, lo) == [hi |-> hi + (lo \div U16Modulus), lo |-> lo % U16Modulus]

\* Two arguments Array<Byte> of 2^31 elements each, which a body can start
\* with: each marshals to its u32 length and 2^31 bytes, so they take
\* 2^32 + 8 bytes of the marshalled body.  The model leaves these bytes out of
\* the buffer and carries their number.
TwoByteArraysOfTwoToThe31 == usize(U16Modulus, 8)
NoElidedArguments == usize(0, 0)

\* marshalled_body.len(), with the bytes that were left out.
marshalled_body_len(elided, buf) == usize(elided.hi, elided.lo + Len(buf))

\* u32::try_from(usize): Err when the value does not fit 32 bits.
u32_try_from(n) ==
    IF n.hi < U16Modulus THEN [st |-> "ok", value |-> U32(n.hi, n.lo)]
    ELSE [st |-> "err", value |-> U32Zero]

\* Connection::marshall_message, given the counter after `self.serial += 1`
\* and the number of body bytes the model leaves out.
marshall_message(serial_after, message_type, flags, header_fields, body, elided) ==
    LET marshalled_body == Body_marshall_be(body)
        header == [message_type |-> message_type,
                   flags |-> flags,
                   length_in_bytes_of_message_body |->
                       length_in_bytes_of_message_body(marshalled_body.buf),
                   serial |-> serial_after,
                   header_fields |-> header_fields]
        marshalled_header == Header_marshall(header)
    IN  IF marshalled_body.st # "ok" THEN NotEmitted(marshalled_body.st)
        ELSE IF u32_try_from(marshalled_body_len(elided, marshalled_body.buf)).st # "ok"
        THEN NotEmitted("err")
        ELSE IF marshalled_header.st # "ok" THEN marshalled_header
        ELSE Emitted("ok", marshalled_header.buf \o marshalled_body.buf,
                     marshalled_header.fields_end, marshalled_header.header_len)

\* The flags of a method call as the HashSet<HeaderFlag> marshall_message takes.
flag_set(m) ==
    (IF m.flag_no_reply_expected THEN {"NoReplyExpected"} ELSE {})
    \cup (IF m.flag_no_auto_start THEN {"NoAutoStart"} ELSE {})
    \cup (IF m.flag_allow_interactive_authorization
          THEN {"AllowInteractiveAuthorization"} ELSE {})

\* The header fields Connection::call_method collects for a method call.
call_header_fields(m) ==
    <<HeaderField("Path", DBusObjectPath(m.path))>>
    \o (IF m.destination.some
        THEN <<HeaderField("Destination", DBusString(m.destination.string))>> ELSE <<>>)
    \o <<HeaderField("Member", DBusString(m.member))>>
    \o (IF m.interface.some
        THEN <<HeaderField("Interface", DBusString(m.interface.string))>> ELSE <<>>)

-----------------------------------------------------------------------------
(* The messages and connections the emitters are run on.                   *)

\* The text "ab..." of n bytes, and an object path of n bytes.
Text(n) == [i \in 1..n |-> 96 + i]
PathText(n) == <<47>> \o Text(n - 1)

\* A signature of 16 structs of 14 bytes each, "(yyyyyyyyyyyyyy)" 16 times: its
\* text of 256 bytes does not fit the one length byte of a marshalled signature.
LongSignature == [i \in 1..16 |-> SigStruct([j \in 1..14 |-> SigByte])]

\* The same with a last struct of 13 bytes: a text of 255 bytes, which fits.
LongestSignature ==
    [i \in 1..16 |-> SigStruct([j \in 1..(IF i = 16 THEN 13 ELSE 14) |-> SigByte])]

Bodies ==
    { <<>>,
      <<DBusByte(1), DBusInt32(2)>>,
      <<DBusString(<<104, 101, 108, 108, 111>>)>>,
      <<DBusArray(SigByte, <<DBusByte(15), DBusByte(16), DBusByte(17)>>), DBusUint16(7)>>,
      <<DBusStruct(<<DBusByte(1), DBusInt64(5)>>), DBusBoolean(TRUE)>>,
      <<DBusArray(SigStruct(<<SigInt32, SigInt32>>), <<>>), DBusString(<<97>>)>>,
      <<DBusByte(1), DBusSignature(LongSignature)>> }

\* Message.serial is a NonZeroU32.
MessageSerials == {U32One, U32MAX}

Message(f1, f2, f4, s, message_type, path, interface, member, destination, body) ==
    [flag_no_reply_expected |-> f1, flag_no_auto_start |-> f2,
     flag_allow_interactive_authorization |-> f4, serial |-> s,
     message_type |-> message_type, path |-> path, interface |-> interface,
     member |-> member, destination |-> destination, body |-> body]

MethodCalls ==
    { Message(f1, f2, f4, s, "MethodCall", PathText(n), i, Text(1), d, b) :
        f1 \in BOOLEAN, f2 \in BOOLEAN, f4 \in BOOLEAN, s \in MessageSerials,
        n \in 1..MaxPathLen, i \in {None, Some(Text(3))}, d \in {None, Some(Text(2))},
        b \in Bodies }

\* One message of each type that is no method call.
OtherMessages ==
    { Message(FALSE, FALSE, FALSE, U32One, t, PathText(1), Some(Text(3)), Text(1), None, <<>>) :
        t \in {"MethodReturn", "Error", "Signal"} }

Messages == MethodCalls \cup OtherMessages

\* The counter of a connection: 0 after Connection::new, and 2^32 - 2 after
\* that many earlier marshall_message calls.
StartSerials == {U32Zero, U32(U16Modulus - 1, U16Modulus - 2)}

NotRun == NotEmitted("none")

\* The handshake has not begun.
AuthIdle ==
    /\ pc = "connect"
    /\ uid = 0
    /\ written = <<>>
    /\ wire = <<>>
    /\ reply = [st |-> "unread", raw |-> <<>>, text |-> <<>>]
    /\ result = "none"

\* No value has been handed to an Encoder or to an unmarshal_be.
\* What a call of unmarshal_message came to: st is "err" for
\* Err(Error::ParseError) and "panic" for a todo!(); the other fields are the
\* locals of unmarshal_message_parse it had bound by then.  No path of the
\* function builds a Message.
ParsedMessage(st, endianness, message_type, flag_bitfield, length, serial_read) ==
    [st |-> st, endianness |-> endianness, message_type |-> message_type,
     flag_bitfield |-> flag_bitfield, length_in_bytes_of_message_body |-> length,
     serial |-> serial_read]
NotParsed == ParsedMessage("none", "none", "none", 0, U32Zero, U32Zero)

NotEncoded == [st |-> "none", buf |-> <<>>]
NotUnmarshalled == [st |-> "none", value |-> DBusByte(0), rest |-> <<>>]
NoInput == [via |-> "none", type |-> Sig("Byte", <<>>), data |-> <<>>, consumed |-> 0]
\* struct I: the wrapped slice and its alignment.
I(data, alignment) == [data |-> data, alignment |-> alignment]

\* The outcome of an operation on an I or on a Decoder: the input it was
\* called on, its argument, and the consumed prefix it returned (if it
\* returns one).
Operation(op, on, arg, st, offset, before, prefix) ==
    [op |-> op, on |-> on, arg |-> arg, st |-> st, offset |-> offset, before |-> before,
     prefix |-> prefix]
NoOperation == Operation("none", "none", 0, "none", 0, I(<<>>, 0), I(<<>>, 0))

\* No input is being chipped at.
InputIdle ==
    /\ message_data = <<>>
    /\ cursor_i = I(<<>>, 0)
    /\ cursor_decoder = [original_data |-> <<>>, data |-> <<>>]
    /\ last_op = NoOperation

CodecIdle ==
    /\ dbus_value = DBusByte(0)
    /\ encoder = EncoderDefault
    /\ encoded = NotEncoded
    /\ input = NoInput
    /\ unmarshalled = NotUnmarshalled
    /\ unmarshalled_message = NotParsed

Init ==
    /\ msg \in Messages
    /\ out = NotRun
    /\ serial \in StartSerials
    /\ sent = <<>>
    /\ AuthIdle
    /\ CodecIdle
    /\ debug_assertions \in BOOLEAN
    /\ InputIdle

\* message.marshal_be()
MarshalBe ==
    /\ out = NotRun
    /\ out' = Message_marshal_be(msg)
    /\ UNCHANGED <<msg, serial, sent>>
    /\ UNCHANGED authVars
    /\ UNCHANGED codecVars
    /\ UNCHANGED buildVars
    /\ UNCHANGED inputVars

\* What `self.serial += 1` does: the outcomes [panic, value] it can have.  The
\* addition overflows at u32::MAX; it then panics (the counter is left as it
\* was) when the build checks arithmetic overflow, and wraps when it does not.
serial_increment(s) ==
    IF U32CanIncrement(s) THEN {[panic |-> FALSE, value |-> U32WrappingIncrement(s)]}
    ELSE {[panic |-> FALSE, value |-> U32WrappingIncrement(s)], [panic |-> TRUE, value |-> s]}

\* One entry of `sent`: the counter before the call and the call's result.
Sent(before, r, after) ==
    [before |-> before, serial |-> after, st |-> r.st, buf |-> r.buf,
     fields_end |-> r.fields_end, header_len |-> r.header_len]

\* conn.marshall_message(message_type, flags, header_fields, body), for the
\* body of msg or for that body behind two byte arrays of 2^31 elements.
MarshallMessage ==
    /\ Len(sent) < MaxSends
    /\ \A i \in DOMAIN sent : sent[i].st # "panic"
    /\ \E elided \in {NoElidedArguments, TwoByteArraysOfTwoToThe31} :
        IF Body_marshall_be(msg.body).st # "ok"
        THEN /\ sent' = Append(sent, Sent(serial, NotEmitted(Body_marshall_be(msg.body).st), serial))
             /\ serial' = serial
        ELSE \E after \in serial_increment(serial) :
               IF after.panic
               THEN /\ sent' = Append(sent, Sent(serial, NotEmitted("panic"), serial))
                    /\ serial' = serial
               ELSE /\ sent' = Append(sent,
                           Sent(serial,
                                marshall_message(after.value, msg.message_type,
                                                 flag_set(msg), call_header_fields(msg),
                                                 msg.body, elided),
                                after.value))
                    /\ serial' = after.value
    /\ UNCHANGED <<msg, out>>
    /\ UNCHANGED authVars
    /\ UNCHANGED codecVars
    /\ UNCHANGED buildVars
    /\ UNCHANGED inputVars


-----------------------------------------------------------------------------
(* Connection::new_system: connect, the null byte, the AUTH EXTERNAL        *)
(* exchange, BEGIN, Hello.  conn.writer is a BufWriter: what is written to  *)
(* it (a few dozen bytes, far less than its capacity) stays in its buffer   *)
(* until flush hands it to the transport.                                   *)

CRLF == <<13, 10>>
\* "AUTH EXTERNAL "
AUTH_EXTERNAL == <<65, 85, 84, 72, 32, 69, 88, 84, 69, 82, 78, 65, 76, 32>>
\* "BEGIN"
BEGIN == <<66, 69, 71, 73, 78>>

\* format!("{}", uid): the decimal digits of uid as ASCII.
RECURSIVE format_decimal(_)
format_decimal(n) ==
    IF n < 10 THEN <<48 + n>> ELSE Append(format_decimal(n \div 10), 48 + (n % 10))

\* hex::encode: two lowercase hex digits for every byte.
RECURSIVE hex_encode(_)
hex_encode(bytes) ==
    LET digit(d) == IF d < 10 THEN 48 + d ELSE 87 + d
    IN  IF bytes = <<>> THEN <<>>
        ELSE <<digit(Head(bytes) \div 16), digit(Head(bytes) % 16)>> \o hex_encode(Tail(bytes))

\* Connection::get_auth_external_param (unix): the uid, in decimal, as hex.
get_auth_external_param(u) == hex_encode(format_decimal(u))

\* A preamble that is left out.
null_byte_missing == <<>>

\* conn.writer.write(&[0]): the null byte that has to come first.
null_byte == <<0>>

\* What auth_write_line can do to (written, wire): it appends the line and
\* \r\n to the writer and flushes; the flush either hands everything to the
\* transport, or fails after handing over fewer bytes than it had.
auth_write_line(w, t, text) ==
    LET all == w \o text \o CRLF
    IN  {[ok |-> TRUE, written |-> all, wire |-> all]}
        \cup {[ok |-> FALSE, written |-> all, wire |-> SubSeq(all, 1, Len(t) + k)] :
                k \in 0..Min(MaxPartial, Len(all) - Len(t) - 1)}

\* What the server's side of the stream holds when the client reads the reply:
\* "OK 1234\r\n", "OK\r\n", "OKAY\r\n" and "OK 12\r\nERROR\r\n" (start with OK),
\* "REJECTED EXTERNAL\r\n", "ERROR\r\n", "\r\n", " OK\r\n" (do not),
\* "OK\n" and "REJECTED\n" (no \r), "OK" and "OK\r" (end of file inside the
\* line) and "" (end of file).
ServerStreams ==
    { <<79, 75, 32, 49, 50, 51, 52, 13, 10>>,
      <<79, 75, 13, 10>>,
      <<79, 75, 65, 89, 13, 10>>,
      <<79, 75, 32, 49, 50, 13, 10, 69, 82, 82, 79, 82, 13, 10>>,
      <<82, 69, 74, 69, 67, 84, 69, 68, 32, 69, 88, 84, 69, 82, 78, 65, 76, 13, 10>>,
      <<69, 82, 82, 79, 82, 13, 10>>,
      <<13, 10>>,
      <<32, 79, 75, 13, 10>>,
      <<79, 75, 10>>,
      <<82, 69, 74, 69, 67, 84, 69, 68, 10>>,
      <<79, 75>>,
      <<79, 75, 13>>,
      <<>> }

\* AsyncBufReadExt::read_line: the bytes up to and including the first \n, or
\* all of them when the stream ends before one.
RECURSIVE read_line(_)
read_line(stream) ==
    IF stream = <<>> THEN <<>>
    ELSE IF Head(stream) = 10 THEN <<10>>
    ELSE <<Head(stream)>> \o read_line(Tail(stream))

ends_with(text, suffix) ==
    /\ Len(text) >= Len(suffix)
    /\ SubSeq(text, Len(text) - Len(suffix) + 1, Len(text)) = suffix

\* A check of the reply that lets every line pass.
starts_with_anything(text, prefix) == TRUE

\* str::starts_with
starts_with(text, prefix) == IsPrefix(prefix, text)

\* Connection::auth_read_line on a stream that delivers `stream` (and then
\* ends), or whose read fails: st is "ok" with the line in text, "err" for
\* Err(IoError), "panic" when assert!(line.ends_with("\r\n")) fails.
auth_read_line(stream, io_error) ==
    LET raw == read_line(stream)
    IN  IF io_error THEN [st |-> "err", raw |-> <<>>, text |-> <<>>]
        ELSE IF ~ends_with(raw, CRLF) THEN [st |-> "panic", raw |-> raw, text |-> <<>>]
        ELSE [st |-> "ok", raw |-> raw, text |-> SubSeq(raw, 1, Len(raw) - 2)]

Uids == {0, 7, 42, 1000}

InitAuth ==
    /\ msg = Message(FALSE, FALSE, FALSE, U32One, "MethodCall", PathText(1), None, Text(1),
                     None, <<>>)
    /\ out = NotRun
    /\ serial = U32Zero
    /\ sent = <<>>
    /\ pc = "connect"
    /\ uid \in Uids
    /\ written = <<>>
    /\ wire = <<>>
    /\ reply = [st |-> "unread", raw |-> <<>>, text |-> <<>>]
    /\ result = "none"
    /\ CodecIdle
    /\ debug_assertions \in BOOLEAN
    /\ InputIdle

\* new_system returns `r` (or panics, r = "panic").
Return(r) ==
    /\ pc' = "done"
    /\ result' = r

\* Self::connect_to_system_bus().await?  -- Connection::new sets serial to 0.
ConnectToSystemBus ==
    /\ pc = "connect"
    /\ \/ /\ pc' = "null_byte"
          /\ serial' = U32Zero
          /\ UNCHANGED result
       \/ /\ Return("IoError")
          /\ UNCHANGED serial
    /\ UNCHANGED <<msg, out, sent, uid, written, wire, reply>>
    /\ UNCHANGED codecVars
    /\ UNCHANGED buildVars
    /\ UNCHANGED inputVars

\* conn.writer.write(&[0]).await?
WriteNullByte ==
    /\ pc = "null_byte"
    /\ written' = written \o null_byte
    /\ pc' = "auth"
    /\ UNCHANGED <<msg, out, serial, sent, uid, wire, reply, result>>
    /\ UNCHANGED codecVars
    /\ UNCHANGED buildVars
    /\ UNCHANGED inputVars

\* auth: self.auth_write_line(format!("AUTH EXTERNAL {}", param)).await?
AuthWriteAuthExternal ==
    /\ pc = "auth"
    /\ \E w \in auth_write_line(written, wire, AUTH_EXTERNAL \o get_auth_external_param(uid)) :
          /\ written' = w.written
          /\ wire' = w.wire
          /\ IF w.ok THEN pc' = "auth_read" /\ UNCHANGED result ELSE Return("IoError")
    /\ UNCHANGED <<msg, out, serial, sent, uid, reply>>
    /\ UNCHANGED codecVars
    /\ UNCHANGED buildVars
    /\ UNCHANGED inputVars

\* auth: let line = self.auth_read_line().await?; then the check of the line.
AuthReadReply ==
    /\ pc = "auth_read"
    /\ \E stream \in ServerStreams, io_error \in BOOLEAN :
          /\ io_error => stream = <<>>
          /\ reply' = auth_read_line(stream, io_error)
          /\ CASE reply'.st = "err" -> Return("IoError")
               [] reply'.st = "panic" -> Return("panic")
               [] reply'.st = "ok" /\ ~starts_with(reply'.text, <<79, 75>>) ->
                     Return("FailedAuth")
               [] OTHER -> pc' = "begin" /\ UNCHANGED result
    /\ UNCHANGED <<msg, out, serial, sent, uid, written, wire>>
    /\ UNCHANGED codecVars
    /\ UNCHANGED buildVars
    /\ UNCHANGED inputVars

\* auth: self.auth_write_line("BEGIN").await?; Ok(())
AuthWriteBegin ==
    /\ pc = "begin"
    /\ \E w \in auth_write_line(written, wire, BEGIN) :
          /\ written' = w.written
          /\ wire' = w.wire
          /\ IF w.ok THEN pc' = "say_hello" /\ UNCHANGED result ELSE Return("IoError")
    /\ UNCHANGED <<msg, out, serial, sent, uid, reply>>
    /\ UNCHANGED codecVars
    /\ UNCHANGED buildVars
    /\ UNCHANGED inputVars

\* "org.freedesktop.DBus", "org/freedesktop/DBus" and "Hello" as bytes.
ORG_FREEDESKTOP_DBUS_NAME ==
    <<111, 114, 103, 46, 102, 114, 101, 101, 100, 101, 115, 107, 116, 111, 112, 46,
      68, 66, 117, 115>>
ORG_FREEDESKTOP_DBUS_PATH ==
    <<111, 114, 103, 47, 102, 114, 101, 101, 100, 101, 115, 107, 116, 111, 112, 47,
      68, 66, 117, 115>>
HELLO == <<72, 101, 108, 108, 111>>

\* The MethodCall say_hello builds, with the flag call_method inserts
\* (flags.insert(HeaderFlag::NoReplyExpected)) and, as no serial has been
\* assigned to it, the connection's counter in the serial field.
say_hello_method_call(counter) ==
    Message(TRUE, FALSE, FALSE, counter, "MethodCall", ORG_FREEDESKTOP_DBUS_PATH,
            Some(ORG_FREEDESKTOP_DBUS_NAME), HELLO, Some(ORG_FREEDESKTOP_DBUS_NAME), <<>>)

\* conn.say_hello().await?: say_hello builds the Hello call; call_method
\* sets its flag, collects the header fields and reaches its todo!() before it
\* marshals or sends anything.
SayHello ==
    /\ pc = "say_hello"
    /\ msg' = say_hello_method_call(serial)
    /\ Return("panic")
    /\ UNCHANGED <<out, serial, sent, uid, written, wire, reply>>
    /\ UNCHANGED codecVars
    /\ UNCHANGED buildVars
    /\ UNCHANGED inputVars

NextAuth ==
    \/ ConnectToSystemBus
    \/ WriteNullByte
    \/ AuthWriteAuthExternal
    \/ AuthReadReply
    \/ AuthWriteBegin
    \/ SayHello

SpecAuth == InitAuth /\ [][NextAuth]_vars

-----------------------------------------------------------------------------
(* unmarshal.rs: the unmarshal_be functions on byte slices and on a        *)
(* Decoder.  A result is [st, value, rest]: st is "ok" with the value and  *)
(* the remaining input, "err" for a nom error, "panic" for a todo!() or an *)
(* index out of range.                                                     *)

Unmarshalled(v, rest) == [st |-> "ok", value |-> v, rest |-> rest]
NomError == [st |-> "err", value |-> DBusByte(0), rest |-> <<>>]
Panic == [st |-> "panic", value |-> DBusByte(0), rest |-> <<>>]

\* &i[pos..]
SliceFrom(i, pos) == SubSeq(i, pos + 1, Len(i))

\* nom::number::complete::be_u8, be_u16 .. be_u64 and be_f64 first take their
\* 1, 2, 4 or 8 bytes: Err(Eof) when the input is shorter.
take(i, count) ==
    IF Len(i) < count THEN NomError
    ELSE [st |-> "ok", value |-> SubSeq(i, 1, count), rest |-> SliceFrom(i, count)]

\* An unsigned and a two's complement big-endian number.  The model's
\* integers end at 2^31 - 1: the slices it decodes hold no larger number.
unsigned_value(bytes) == from_be_bytes(bytes)
signed_value(bytes) ==
    IF bytes[1] >= 128
    THEN -(from_be_bytes([k \in 1..Len(bytes) |-> 255 - bytes[k]]) + 1)
    ELSE from_be_bytes(bytes)

\* be_u32 with its value as a u32 of two halves.
be_u32(i) ==
    LET t == take(i, 4)
    IN  IF t.st # "ok" THEN t
        ELSE [st |-> "ok",
              value |-> U32(256 * t.value[1] + t.value[2], 256 * t.value[3] + t.value[4]),
              rest |-> t.rest]

\* nom's tag: the input has to start with the bytes `t`.
tag(t, i) ==
    IF IsPrefix(t, i) THEN [st |-> "ok", value |-> t, rest |-> SliceFrom(i, Len(t))]
    ELSE NomError

\* A boolean that is true for every u32 but 0.
boolean_from_u32_nonzero(u32) ==
    IF u32 = U32Zero THEN Unmarshalled(DBusBoolean(FALSE), <<>>)
    ELSE Unmarshalled(DBusBoolean(TRUE), <<>>)

\* The closure given to map_opt: only 0 and 1 are valid values.
boolean_from_u32(u32) ==
    IF u32 = U32Zero THEN Unmarshalled(DBusBoolean(FALSE), <<>>)
    ELSE IF u32 = U32One THEN Unmarshalled(DBusBoolean(TRUE), <<>>)
    ELSE NomError

\* DBusBoolean::unmarshal_be on a slice: map_opt(be_u32, ..).
DBusBoolean_unmarshal_be(i) ==
    LET r == be_u32(i)
    IN  IF r.st # "ok" THEN NomError
        ELSE IF boolean_from_u32(r.value).st # "ok" THEN NomError
        ELSE Unmarshalled(boolean_from_u32(r.value).value, r.rest)

\* std::str::from_utf8(bytes).is_ok()
RECURSIVE is_utf8(_)
is_utf8(b) ==
    IF b = <<>> THEN TRUE
    ELSE LET continuation(k, lo, hi) == Len(b) >= k /\ lo <= b[k] /\ b[k] <= hi
         IN  CASE b[1] < 128 -> is_utf8(SliceFrom(b, 1))
               [] 194 <= b[1] /\ b[1] <= 223 ->
                     continuation(2, 128, 191) /\ is_utf8(SliceFrom(b, 2))
               [] 224 <= b[1] /\ b[1] <= 239 ->
                     /\ continuation(2, IF b[1] = 224 THEN 160 ELSE 128,
                                     IF b[1] = 237 THEN 159 ELSE 191)
                     /\ continuation(3, 128, 191)
                     /\ is_utf8(SliceFrom(b, 3))
               [] 240 <= b[1] /\ b[1] <= 244 ->
                     /\ continuation(2, IF b[1] = 240 THEN 144 ELSE 128,
                                     IF b[1] = 244 THEN 143 ELSE 191)
                     /\ continuation(3, 128, 191)
                     /\ continuation(4, 128, 191)
                     /\ is_utf8(SliceFrom(b, 4))
               [] OTHER -> FALSE

\* A string taken without the check of its terminating null byte.
DBusString_unmarshal_be_unterminated(i) ==
    LET length == be_u32(i)
        first == IF length.st = "ok" /\ length.value.hi = 0
                 THEN take(length.rest, length.value.lo) ELSE NomError
    IN  IF first.st # "ok" \/ ~is_utf8(first.value) THEN NomError
        ELSE Unmarshalled(DBusString(first.value), SliceFrom(first.rest, 1))

\* DBusString::unmarshal_be: be_u32 length, map_res(take(length), from_utf8),
\* tag(&[0]).  A length with a nonzero upper half is beyond every slice of the
\* model.
DBusString_unmarshal_be(i) ==
    LET length == be_u32(i)
        first == IF length.st = "ok" /\ length.value.hi = 0
                 THEN take(length.rest, length.value.lo) ELSE NomError
        null == IF first.st = "ok" THEN tag(<<0>>, first.rest) ELSE NomError
    IN  IF first.st # "ok" \/ ~is_utf8(first.value) \/ null.st # "ok" THEN NomError
        ELSE Unmarshalled(DBusString(first.value), null.rest)

\* The unmarshal_be on a slice of the type with signature sig, for the basic
\* types; the ones of ObjectPath and UnixFileDescriptor are todo!().
unmarshal_be(sig, i) ==
    LET number(width, make(_)) ==
            LET t == take(i, width)
            IN  IF t.st # "ok" THEN NomError ELSE Unmarshalled(make(t.value), t.rest)
        byte(b) == DBusByte(b[1])
        int16(b) == DBusInt16(signed_value(b))
        uint16(b) == DBusUint16(unsigned_value(b))
        int32(b) == DBusInt32(signed_value(b))
        uint32(b) == DBusUint32(unsigned_value(b))
        int64(b) == DBusInt64(signed_value(b))
        uint64(b) == DBusUint64(unsigned_value(b))
        double(b) == DBusDouble(b)
    IN  CASE sig.k = "Byte" -> number(1, byte)
          [] sig.k = "Boolean" -> DBusBoolean_unmarshal_be(i)
          [] sig.k = "Int16" -> number(2, int16)
          [] sig.k = "Uint16" -> number(2, uint16)
          [] sig.k = "Int32" -> number(4, int32)
          [] sig.k = "Uint32" -> number(4, uint32)
          [] sig.k = "Int64" -> number(8, int64)
          [] sig.k = "Uint64" -> number(8, uint64)
          [] sig.k = "Double" -> number(8, double)
          [] sig.k = "String" -> DBusString_unmarshal_be(i)
          [] sig.k \in {"ObjectPath", "UnixFileDescriptor"} -> Panic

\* The item types DBusArray::unmarshal_be has a loop for; the others are
\* todo!().
ArrayItemTypes ==
    { "Byte", "Boolean", "Int16", "Uint16", "Int32", "Uint32", "Int64", "Uint64",
      "Double", "String" }

\* The step of `for pos in (0..length as usize).step_by(size)`, and of
\* `for pos in 0..length as usize` for bytes (whose size is 1).
array_step(item_type) == marshalling_boundary(item_type)

\* The loop of DBusArray::unmarshal_be from position pos on: every item is
\* unmarshalled from &i[pos..] (a panic when pos is behind the end of i) and
\* pushed, the first Err is returned by `?`.
RECURSIVE unmarshal_items(_, _, _, _)
unmarshal_items(i, item_type, pos, length) ==
    IF pos >= length THEN [st |-> "ok", items |-> <<>>]
    ELSE IF pos > Len(i) THEN [st |-> "panic", items |-> <<>>]
    ELSE LET b == unmarshal_be(item_type, SliceFrom(i, pos))
             more == unmarshal_items(i, item_type, pos + array_step(item_type), length)
         IN  IF b.st # "ok" THEN [st |-> b.st, items |-> <<>>]
             ELSE IF more.st # "ok" THEN more
             ELSE [st |-> "ok", items |-> <<b.value>> \o more.items]

\* DBusArray::unmarshal_be: be_u32 length; four null bytes when the boundary
\* of the item type is above 4 (vec![0; 4 % size]); the loop of the item type;
\* Ok((i, dba)) with the i the loop started from.
DBusArray_unmarshal_be(i, item_type) ==
    LET length == be_u32(i)
        size == marshalling_boundary(item_type)
        padded == IF length.st # "ok" THEN NomError
                  ELSE IF size > 4 THEN tag([k \in 1..(4 % size) |-> 0], length.rest)
                  ELSE length
        items == unmarshal_items(padded.rest, item_type, 0,
                                 U16Modulus * length.value.hi + length.value.lo)
    IN  IF padded.st # "ok" THEN NomError
        ELSE IF item_type.k \notin ArrayItemTypes THEN Panic
        ELSE IF items.st = "panic" THEN Panic
        ELSE IF items.st # "ok" THEN NomError
        ELSE Unmarshalled(DBusArray(item_type, items.items), padded.rest)

\* The type codes unmarshal_basic_type knows.
BasicTypeCodes == {121, 98, 110, 113, 105, 117, 120, 116, 100, 115, 111, 104}

\* A table from type codes to types that takes u for an Int32 as well.
unmarshal_basic_type_confused(b) ==
    CASE b = 121 -> SigByte
      [] b = 98 -> SigBoolean
      [] b = 110 -> SigInt16
      [] b = 113 -> SigUint16
      [] b \in {105, 117} -> SigInt32
      [] b = 120 -> SigInt64
      [] b = 116 -> SigUint64
      [] b = 100 -> Sig("Double", <<>>)
      [] b = 115 -> SigString
      [] b = 111 -> SigObjectPath
      [] b = 104 -> SigUnixFileDescriptor

\* unmarshal_basic_type in DBusSignature::unmarshal_be, for the codes it
\* knows (every other byte is todo!()).
unmarshal_basic_type(b) ==
    CASE b = 121 -> SigByte
      [] b = 98 -> SigBoolean
      [] b = 110 -> SigInt16
      [] b = 113 -> SigUint16
      [] b = 105 -> SigInt32
      [] b = 117 -> SigUint32
      [] b = 120 -> SigInt64
      [] b = 116 -> SigUint64
      [] b = 100 -> Sig("Double", <<>>)
      [] b = 115 -> SigString
      [] b = 111 -> SigObjectPath
      [] b = 104 -> SigUnixFileDescriptor

\* The loop `while pos < length` of DBusSignature::unmarshal_be: i[pos] panics
\* behind the end of i, and so do a, ( and { and every byte that is not a
\* basic type code (todo!()).
RECURSIVE unmarshal_codes(_, _, _)
unmarshal_codes(i, pos, length) ==
    IF pos >= length THEN [st |-> "ok", vec |-> <<>>]
    ELSE IF pos >= Len(i) THEN [st |-> "panic", vec |-> <<>>]
    ELSE IF i[pos + 1] \notin BasicTypeCodes THEN [st |-> "panic", vec |-> <<>>]
    ELSE LET more == unmarshal_codes(i, pos + 1, length)
         IN  IF more.st # "ok" THEN more
             ELSE [st |-> "ok", vec |-> <<unmarshal_basic_type(i[pos + 1])>> \o more.vec]

\* DBusSignature::unmarshal_be on a slice: be_u8 length, the loop, and
\* Ok((i, Self { vec })) with the i behind the length byte.
DBusSignature_unmarshal_be(i) ==
    LET length == take(i, 1)
        codes == unmarshal_codes(length.rest, 0, length.value[1])
    IN  IF length.st # "ok" THEN NomError
        ELSE IF codes.st # "ok" THEN Panic
        ELSE Unmarshalled(DBusSignature(codes.vec), length.rest)

\* le_u32 with its value as a u32 of two halves.
le_u32(i) ==
    LET t == take(i, 4)
    IN  IF t.st # "ok" THEN t
        ELSE [st |-> "ok",
              value |-> U32(256 * t.value[4] + t.value[3], 256 * t.value[2] + t.value[1]),
              rest |-> t.rest]

\* Endianness::ascii_code
ascii_code(endianness) ==
    CASE endianness = "BigEndian" -> 66
      [] endianness = "LittleEndian" -> 108

\* A reading of the first byte that takes every byte but l for big-endian.
Endianness_unmarshal_lenient(i) ==
    IF i = <<>> THEN [st |-> "err", value |-> "BigEndian", rest |-> i]
    ELSE [st |-> "ok", value |-> IF i[1] = 108 THEN "LittleEndian" ELSE "BigEndian",
          rest |-> SliceFrom(i, 1)]

\* Endianness::unmarshal: map_opt(be_u8, B or l).
Endianness_unmarshal(i) ==
    IF i = <<>> \/ i[1] \notin {66, 108} THEN [st |-> "err", value |-> "BigEndian", rest |-> i]
    ELSE [st |-> "ok", value |-> IF i[1] = 66 THEN "BigEndian" ELSE "LittleEndian",
          rest |-> SliceFrom(i, 1)]

\* MessageType::unmarshal: map_opt(be_u8, 1 .. 4).
MessageType_unmarshal(i) ==
    IF i = <<>> \/ i[1] \notin 1..4 THEN [st |-> "err", value |-> "MethodCall", rest |-> i]
    ELSE [st |-> "ok",
          value |-> CASE i[1] = 1 -> "MethodCall"
                      [] i[1] = 2 -> "MethodReturn"
                      [] i[1] = 3 -> "Error"
                      [] i[1] = 4 -> "Signal",
          rest |-> SliceFrom(i, 1)]

\* unmarshal_message_parse, and unmarshal_message which turns its Err into
\* Error::ParseError: the four bytes, the two u32 in the byte order of the
\* first byte, then for a big-endian message DBusArray::unmarshal_be with
\* HEADER_FIELD_SIGNATURE and its `?`, for a little-endian one todo!(), and
\* todo!() behind both.
unmarshal_message(message) ==
    LET endianness == Endianness_unmarshal(message)
        message_type == IF endianness.st = "ok" THEN MessageType_unmarshal(endianness.rest)
                        ELSE NomError
        flag_bitfield == IF message_type.st = "ok" THEN take(message_type.rest, 1)
                         ELSE NomError
        major_protocol_version ==
            IF flag_bitfield.st = "ok" THEN tag(<<MAJOR_PROTOCOL_VERSION>>, flag_bitfield.rest)
            ELSE NomError
        parse_u32(i) == IF endianness.value = "LittleEndian" THEN le_u32(i) ELSE be_u32(i)
        length == IF major_protocol_version.st = "ok"
                  THEN parse_u32(major_protocol_version.rest) ELSE NomError
        serial_read == IF length.st = "ok" THEN parse_u32(length.rest) ELSE NomError
        header_field_array == DBusArray_unmarshal_be(serial_read.rest, HEADER_FIELD_SIGNATURE)
        stopped(st) ==
            ParsedMessage(st, endianness.value, message_type.value, flag_bitfield.value[1],
                          length.value, serial_read.value)
    IN  IF serial_read.st # "ok"
        THEN ParsedMessage("err", "none", "none", 0, U32Zero, U32Zero)
        ELSE IF endianness.value = "LittleEndian" THEN stopped("panic")
        ELSE IF header_field_array.st = "err" THEN stopped("err")
        ELSE stopped("panic")

\* Decoder::new(data), and a Decoder that has passed `consumed` bytes of it.
Decoder(original_data, consumed) ==
    [original_data |-> original_data, data |-> SliceFrom(original_data, consumed)]

\* skip_null_byte: verify(be_u8, |&byte| byte == 0x00).
skip_null_byte(i) ==
    IF Len(i.data) >= 1 /\ i.data[1] = 0
    THEN [st |-> "ok", i |-> [i EXCEPT !.data = SliceFrom(i.data, 1)]]
    ELSE [st |-> "err", i |-> i]

\* Decoder::advance_to_boundary: eat null bytes up to the boundary, counted
\* from the start of original_data.
RECURSIVE advance_to_boundary(_, _)
advance_to_boundary(i, boundary) ==
    IF (Len(i.original_data) - Len(i.data)) % boundary # 0
    THEN LET skipped == skip_null_byte(i)
         IN  IF skipped.st # "ok" THEN skipped ELSE advance_to_boundary(skipped.i, boundary)
    ELSE [st |-> "ok", i |-> i]

\* impl Unmarshal for DBusByte and for DBusBoolean, on a Decoder.
Unmarshal_unmarshal_be(sig, i) ==
    CASE sig.k = "Byte" -> unmarshal_be(SigByte, i.data)
      [] sig.k = "Boolean" ->
            LET aligned == advance_to_boundary(i, 4)
            IN  IF aligned.st # "ok" THEN NomError
                ELSE DBusBoolean_unmarshal_be(aligned.i.data)

-----------------------------------------------------------------------------
(* The emitters, and unmarshal_message on what Message::marshal_be emitted. *)

\* unmarshal_message(&marshalled) on what message.marshal_be() returned.
UnmarshalMessage ==
    /\ out.st = "ok"
    /\ unmarshalled_message = NotParsed
    /\ unmarshalled_message' = unmarshal_message(out.buf)
    /\ UNCHANGED <<dbus_value, encoder, encoded, input, unmarshalled>>
    /\ UNCHANGED msgVars
    /\ UNCHANGED authVars
    /\ UNCHANGED buildVars
    /\ UNCHANGED inputVars

Next == MarshalBe \/ MarshallMessage \/ UnmarshalMessage

Spec == Init /\ [][Next]_vars

-----------------------------------------------------------------------------
(* The encoder and the decoders on single values.                          *)

\* Longest buffer an Encoder holds before the value is marshalled into it.
MaxOffset == 8
\* Most bytes a Decoder has passed before a value is unmarshalled from it.
MaxConsumed == 5

\* The null bytes between offset n and the next multiple of 4.
Padding4(n) == [k \in 1..((4 - (n % 4)) % 4) |-> 0]

\* Values of the types of fixed width.
FixedWidthValues ==
    { DBusByte(7), DBusBoolean(TRUE), DBusBoolean(FALSE), DBusInt16(-2), DBusUint16(258),
      DBusInt32(-3), DBusUint32(65537), DBusInt64(5), DBusUint64(9),
      DBusDouble(<<63, 240, 0, 0, 0, 0, 0, 0>>) }

\* Values at the ends of the ranges of their types, as far as the model's
\* integers reach.
ExtremeValues ==
    { DBusByte(0), DBusByte(255), DBusInt16(-32768), DBusInt16(32767), DBusUint16(0),
      DBusUint16(65535), DBusInt32(-2147483647), DBusInt32(2147483647),
      DBusUint32(0), DBusUint32(2147483647), DBusInt64(-2147483647),
      DBusInt64(2147483647), DBusUint64(0), DBusUint64(2147483647) }

\* Strings, object paths and signatures.
TextValues ==
    { DBusString(<<>>), DBusString(<<104, 101, 108, 108, 111>>),
      DBusString(<<195, 169>>), DBusString(<<97, 0, 98>>), DBusObjectPath(<<47, 97>>),
      DBusSignature(<<>>), DBusSignature(<<SigString, SigInt32>>),
      DBusSignature(<<SigArray(SigStruct(<<SigByte, SigVariant>>))>>),
      DBusSignature(<<SigArray(SigDictEntry(SigString, SigVariant))>>),
      DBusSignature(<<SigDictEntry(SigString, SigVariant)>>),
      DBusSignature(LongestSignature), DBusSignature(LongSignature) }

\* Arrays whose elements need padding, or that have no element.
ArrayValues ==
    { DBusArray(SigByte, <<DBusByte(15), DBusByte(16), DBusByte(17)>>),
      DBusArray(SigStruct(<<SigInt32, SigInt32>>), <<>>),
      DBusArray(SigStruct(<<SigByte, SigUint16>>),
                <<DBusStruct(<<DBusByte(1), DBusUint16(2)>>),
                  DBusStruct(<<DBusByte(3), DBusUint16(4)>>)>>),
      DBusArray(SigString, <<DBusString(<<97>>), DBusString(<<98, 99>>)>>),
      DBusArray(SigArray(SigInt64), <<DBusArray(SigInt64, <<>>)>>),
      DBusArray(SigString, <<>>), DBusArray(SigString, <<DBusString(<<>>)>>) }

\* Arrays built with an item whose signature is not the array's item_type:
\* DBusArray::push takes any Into<Type>, and the fields are public.
MismatchedArrays ==
    { DBusArray(SigByte, <<DBusByte(1), DBusUint32(2)>>),
      DBusArray(SigUint32, <<DBusString(<<97>>)>>),
      DBusArray(SigInt16, <<DBusInt16(3), DBusByte(4), DBusInt16(5)>>) }

\* The values an Encoder is run on: those above, the fixed-width values as a
\* struct field, as the elements of an array and as the payload of a variant,
\* and a unix file descriptor.
MarshalValues ==
    FixedWidthValues \cup ExtremeValues \cup TextValues \cup ArrayValues
    \cup MismatchedArrays
    \cup { DBusStruct(<<DBusByte(1), v>>) : v \in FixedWidthValues }
    \cup { DBusArray(signature(v), <<>>) : v \in FixedWidthValues }
    \cup { DBusArray(signature(v), <<v>>) : v \in FixedWidthValues }
    \cup { DBusArray(signature(v), <<v, v>>) : v \in FixedWidthValues }
    \cup { DBusVariant(v) : v \in FixedWidthValues }
    \cup { DBusUnixFileDescriptor }

\* An Encoder that already holds n bytes, none of them 0x00.
EncoderAt(n) == Encoder([i \in 1..n |-> 255])

\* A slice handed to the unmarshal_be of a type, and a Decoder that has passed
\* `consumed` bytes of its data handed to the Unmarshal impl of a type.
SliceInput(type, data) ==
    [via |-> "slice", type |-> type, data |-> data, consumed |-> 0]
DecoderInput(type, data, consumed) ==
    [via |-> "Decoder", type |-> type, data |-> data, consumed |-> consumed]

\* The u32 values a boolean is unmarshalled from.
BooleanWords ==
    { <<0, 0, 0, 0>>, <<0, 0, 0, 1>>, <<0, 0, 0, 2>>, <<0, 0, 1, 0>>, <<0, 0, 1, 1>>,
      <<0, 1, 0, 0>>, <<1, 0, 0, 0>>, <<1, 0, 0, 1>>, <<128, 0, 0, 1>>,
      <<255, 255, 255, 255>> }

\* Inputs that end before the value does.
ShortInputs == { <<>>, <<0>>, <<0, 0>>, <<0, 0, 1>>, <<0, 0, 0>> }

\* Marshalled strings, sound and broken: a length beyond the input, text that
\* is no UTF-8, a terminator that is missing or not null.
StringInputs ==
    { <<0, 0, 0, 5, 104, 101, 108, 108, 111, 0>>,
      <<0, 0, 0, 0, 0>>,
      <<0, 0, 0, 1, 97, 0, 9>>,
      <<0, 0, 0, 2, 195, 169, 0>>,
      <<0, 0, 0, 3, 226, 130, 172, 0>>,
      <<0, 0, 0, 5, 104, 105>>,
      <<0, 0, 0, 2, 97, 0>>,
      <<0, 0, 1, 0, 97, 0>>,
      <<1, 0, 0, 0, 97, 0>>,
      <<0, 0, 0, 1, 255, 0>>,
      <<0, 0, 0, 2, 195, 40, 0>>,
      <<0, 0, 0, 1, 195, 0>>,
      <<0, 0, 0, 3, 237, 160, 128, 0>>,
      <<0, 0, 0, 1, 97, 1>>,
      <<0, 0, 0, 1, 97>>,
      <<0, 0, 0, 0>> }

\* Marshalled arrays, alone and in front of other bytes, and broken ones: a
\* length beyond the input, padding that is not null, an item type without a
\* decoder.
ArrayInputs ==
    { SliceInput(SigArray(SigByte), <<0, 0, 0, 3, 15, 16, 17>>),
      SliceInput(SigArray(SigByte), <<0, 0, 0, 3, 15, 16, 17, 99>>),
      SliceInput(SigArray(SigByte), <<0, 0, 0, 0, 99>>),
      SliceInput(SigArray(SigByte), <<0, 0, 0, 3, 15, 16>>),
      SliceInput(SigArray(SigByte), <<0, 0, 1, 0, 15>>),
      SliceInput(SigArray(SigUint16), <<0, 0, 0, 4, 0, 1, 0, 2, 7, 7>>),
      SliceInput(SigArray(SigUint16), <<0, 0, 0, 3, 0, 1, 0, 2>>),
      SliceInput(SigArray(SigBoolean), <<0, 0, 0, 8, 0, 0, 0, 1, 0, 0, 0, 2>>),
      SliceInput(SigArray(SigInt64), <<0, 0, 0, 8, 0, 0, 0, 0, 255, 255, 255, 255, 255, 255,
                                       255, 254, 1>>),
      SliceInput(SigArray(SigInt64), <<0, 0, 0, 0, 0, 0, 0, 1>>),
      SliceInput(SigArray(SigInt64), <<0, 0, 0, 0>>),
      SliceInput(SigArray(SigString), <<0, 0, 0, 6, 0, 0, 0, 1, 97, 0>>),
      SliceInput(SigArray(SigString), <<0, 0, 0, 4, 0, 0, 0, 0, 0, 5>>),
      SliceInput(SigArray(SigObjectPath), <<0, 0, 0, 0>>),
      SliceInput(SigArray(HEADER_FIELD_SIGNATURE), <<0, 0, 0, 0, 0, 0, 0, 0>>),
      SliceInput(SigArray(HEADER_FIELD_SIGNATURE), <<0, 0, 0, 8, 1, 1, 111, 0>>),
      SliceInput(SigArray(SigByte), <<0, 0, 3>>) }

\* Marshalled signatures of basic type codes, alone and in front of other
\* bytes, without terminator and with a terminator that is not null, and
\* signatures with a length beyond the input or with other codes.
SignatureInputs ==
    { SliceInput(SigSignature, <<9, 121, 98, 110, 113, 105, 117, 120, 116, 100>>),
      SliceInput(SigSignature,
                 <<12, 121, 98, 110, 113, 105, 117, 120, 116, 100, 115, 111, 104, 0>>),
      SliceInput(SigSignature, <<0>>),
      SliceInput(SigSignature, <<0, 0>>),
      SliceInput(SigSignature, <<1, 115, 0>>),
      SliceInput(SigSignature, <<2, 115, 115, 0, 9>>),
      SliceInput(SigSignature, <<3, 104, 111, 104, 0, 0, 0, 0, 7>>),
      SliceInput(SigSignature, <<1, 115, 7>>),
      SliceInput(SigSignature, <<3, 115>>),
      SliceInput(SigSignature, <<2, 97, 121, 0>>),
      SliceInput(SigSignature, <<4, 40, 105, 105, 41, 0>>),
      SliceInput(SigSignature, <<1, 118, 0>>),
      SliceInput(SigSignature, <<1, 103, 0>>),
      SliceInput(SigSignature, <<>>) }

\* A byte slice handed to unmarshal_message.
MessageInput(data) ==
    [via |-> "unmarshal_message", type |-> Sig("Byte", <<>>), data |-> data, consumed |-> 0]

\* Fixed headers with sound and with wrong bytes, big-endian and
\* little-endian, alone and in front of an empty and of a filled array of
\* header fields.
HeaderInputs ==
    { <<e, t, f, v>> \o length \o serial_bytes \o fields :
        e \in {66, 108, 98, 0}, t \in {0, 1, 4, 5}, f \in {0, 5}, v \in {0, 1, 2},
        length \in {<<0, 0, 0, 0>>, <<0, 0, 1, 2>>},
        serial_bytes \in {<<0, 0, 0, 1>>, <<1, 0, 0, 0>>, <<255, 255, 255, 254>>},
        fields \in {<<>>, <<0, 0, 0, 0>>, <<0, 0, 0, 0, 0, 0, 0, 0>>,
                    <<0, 0, 0, 8, 1, 1, 111, 0, 0, 0, 0, 1, 47, 0, 0, 0>>,
                    <<8, 0, 0, 0, 1, 1, 111, 0, 1, 0, 0, 0, 47, 0, 0, 0>>} }

\* The inputs of unmarshal_message: those headers and what is left of two
\* sound ones when they are cut short.
MessageInputs ==
    { MessageInput(h) : h \in HeaderInputs }
    \cup { MessageInput(SubSeq(h, 1, n)) :
             h \in {<<66, 1, 0, 1, 0, 0, 0, 0, 0, 0, 0, 1>>,
                    <<108, 1, 0, 1, 0, 0, 0, 0, 1, 0, 0, 0>>},
             n \in 0..11 }

BasicSignatures ==
    { SigByte, SigBoolean, SigInt16, SigUint16, SigInt32, SigUint32, SigInt64, SigUint64,
      Sig("Double", <<>>), SigString }

\* The inputs the decoders are run on.
UnmarshalInputs ==
    { SliceInput(SigBoolean, w \o t) : w \in BooleanWords, t \in {<<>>, <<9>>} }
    \cup { SliceInput(type, i) : type \in BasicSignatures, i \in ShortInputs }
    \cup { SliceInput(SigString, i) : i \in StringInputs }
    \cup ArrayInputs \cup SignatureInputs \cup MessageInputs
    \cup { DecoderInput(SigBoolean, w, 0) : w \in BooleanWords \cup ShortInputs }
    \cup UNION { { DecoderInput(SigBoolean, [k \in 1..n |-> 255] \o gap \o w, n) :
                     w \in BooleanWords \cup ShortInputs,
                     gap \in { Padding4(n), [k \in 1..Len(Padding4(n)) |-> k] } } :
                   n \in 1..MaxConsumed }
    \cup { DecoderInput(SigByte, [k \in 1..n |-> 255] \o t, n) :
             n \in 0..MaxConsumed, t \in {<<>>, <<7>>, <<0, 7>>} }

\* Either a value and an Encoder are drawn, or an input of a decoder.
InitCodec ==
    /\ msg = Message(FALSE, FALSE, FALSE, U32One, "MethodCall", PathText(1), None, Text(1),
                     None, <<>>)
    /\ out = NotRun
    /\ serial = U32Zero
    /\ sent = <<>>
    /\ AuthIdle
    /\ encoded = NotEncoded
    /\ unmarshalled = NotUnmarshalled
    /\ unmarshalled_message = NotParsed
    /\ debug_assertions \in BOOLEAN
    /\ InputIdle
    /\ \/ /\ dbus_value \in MarshalValues
          /\ encoder \in { EncoderAt(n) : n \in 0..MaxOffset }
          /\ input = NoInput
       \/ /\ dbus_value = DBusByte(0)
          /\ encoder = EncoderDefault
          /\ input \in UnmarshalInputs

\* encoder.marshal_be(&dbus_value)
MarshalValue ==
    /\ input = NoInput
    /\ encoded = NotEncoded
    /\ encoded' = marshal_be(encoder, dbus_value)
    /\ UNCHANGED <<dbus_value, encoder, input, unmarshalled, unmarshalled_message>>
    /\ UNCHANGED msgVars
    /\ UNCHANGED authVars
    /\ UNCHANGED buildVars
    /\ UNCHANGED inputVars

\* The unmarshal_be of the input's type on the input's data.
Unmarshal(i) ==
    IF i.via = "slice"
    THEN CASE i.type.k = "Array" -> DBusArray_unmarshal_be(i.data, i.type.sub[1])
           [] i.type.k = "Signature" -> DBusSignature_unmarshal_be(i.data)
           [] OTHER -> unmarshal_be(i.type, i.data)
    ELSE Unmarshal_unmarshal_be(i.type, Decoder(i.data, i.consumed))

\* T::unmarshal_be(&marshalled) on what a fresh Encoder produced for a value of
\* a basic type T or for an array.
UnmarshalMarshalled ==
    /\ encoded.st = "ok"
    /\ encoder = EncoderDefault
    /\ input = NoInput
    /\ \/ signature(dbus_value) \in BasicSignatures \cup {SigObjectPath, SigSignature}
       \/ dbus_value.t = "Array"
    /\ input' = SliceInput(signature(dbus_value), encoded.buf)
    /\ unmarshalled' = Unmarshal(input')
    /\ UNCHANGED <<dbus_value, encoder, encoded, unmarshalled_message>>
    /\ UNCHANGED msgVars
    /\ UNCHANGED authVars
    /\ UNCHANGED buildVars
    /\ UNCHANGED inputVars

\* T::unmarshal_be on a drawn input.
UnmarshalInput ==
    /\ input.via \in {"slice", "Decoder"}
    /\ unmarshalled = NotUnmarshalled
    /\ unmarshalled' = Unmarshal(input)
    /\ UNCHANGED <<dbus_value, encoder, encoded, input, unmarshalled_message>>
    /\ UNCHANGED msgVars
    /\ UNCHANGED authVars
    /\ UNCHANGED buildVars
    /\ UNCHANGED inputVars

\* unmarshal_message on a drawn input.
UnmarshalMessageInput ==
    /\ input.via = "unmarshal_message"
    /\ unmarshalled_message = NotParsed
    /\ unmarshalled_message' = unmarshal_message(input.data)
    /\ UNCHANGED <<dbus_value, encoder, encoded, input, unmarshalled>>
    /\ UNCHANGED msgVars
    /\ UNCHANGED authVars
    /\ UNCHANGED buildVars
    /\ UNCHANGED inputVars

NextCodec == MarshalValue \/ UnmarshalMarshalled \/ UnmarshalInput \/ UnmarshalMessageInput

SpecCodec == InitCodec /\ [][NextCodec]_vars

-----------------------------------------------------------------------------
(* The decoder inputs I and Decoder under the operations nom performs.     *)

\* Most bytes one operation takes.
MaxCount == 3

\* I::new
I_new(data) == I(data, 0)

\* impl nom::Slice<RangeFrom<usize>> for I: slice(start..)
I_slice(i, start) == I(SliceFrom(i.data, start), (i.alignment + start) % 8)

\* impl nom::InputTake for I: take(count) returns the prefix.
I_take(i, count) == I(SubSeq(i.data, 1, count), i.alignment)

\* A take_split whose suffix counts on without wrapping at 8.
I_take_split_unwrapped(i, count) ==
    [suffix |-> I(SliceFrom(i.data, count), i.alignment + count),
     prefix |-> I(SubSeq(i.data, 1, count), i.alignment)]

\* impl nom::InputTake for I: take_split(count) returns (suffix, prefix).
I_take_split(i, count) ==
    [suffix |-> I(SliceFrom(i.data, count), (i.alignment + count) % 8),
     prefix |-> I(SubSeq(i.data, 1, count), i.alignment)]

\* nom::bytes::complete::tag(t) on an I: Compare on the data, then
\* take_split(t.len()).
I_tag(t, i) ==
    IF IsPrefix(t, i.data)
    THEN [st |-> "ok", i |-> I_take_split(i, Len(t)).suffix,
          parsed |-> I_take_split(i, Len(t)).prefix]
    ELSE [st |-> "err", i |-> i, parsed |-> I(<<>>, 0)]

\* parsers::complete::skip_null_byte on an I: verify(be_u8, byte == 0x00),
\* where be_u8 returns input.slice(1..).
I_skip_null_byte(i) ==
    IF Len(i.data) >= 1 /\ i.data[1] = 0
    THEN [st |-> "ok", i |-> I_slice(i, 1)]
    ELSE [st |-> "err", i |-> i]

\* I::advance_to_boundary: `while i.alignment != 0`, whatever the boundary.
RECURSIVE I_advance_to_boundary(_, _)
I_advance_to_boundary(i, boundary) ==
    IF i.alignment # 0
    THEN LET skipped == I_skip_null_byte(i)
         IN  IF skipped.st # "ok" THEN skipped
             ELSE I_advance_to_boundary(skipped.i, boundary)
    ELSE [st |-> "ok", i |-> i]

\* impl nom::Slice<RangeFrom<usize>> for Decoder
Decoder_slice(i, start) == [i EXCEPT !.data = SliceFrom(i.data, start)]

\* Decoder::advance_to_boundary of unmarshall.rs: the `let (i, _) =
\* tag(&[0])(i)?` in the loop binds a new i, so the i in the loop condition
\* never moves: behind a null byte the loop does not end, and a byte that is
\* not null is an Err.
unmarshall_advance_to_boundary(i, boundary) ==
    IF (Len(i.original_data) - Len(i.data)) % boundary # 0
    THEN IF tag(<<0>>, i.data).st = "ok" THEN [st |-> "diverges", i |-> i]
         ELSE [st |-> "err", i |-> i]
    ELSE [st |-> "ok", i |-> i]

\* The slice of the test take_split_alignment.
DataOfTheTest == <<0, 1, 2, 3, 4, 5, 6, 7, 8, 9, 10>>

\* The slices the inputs are created on: that of the test, one with null
\* bytes up to beyond an 8-byte boundary, one with a byte that is not null
\* among them, and one that ends early.
MessageData ==
    { DataOfTheTest,
      <<9, 0, 0, 0, 0, 0, 0, 0, 9, 0, 0, 0>>,
      <<9, 0, 0, 7, 0, 0, 0, 0, 0>>,
      <<9, 0>> }

\* The boundaries the callers pass (the debug_assert! of both
\* advance_to_boundary holds for them).
Boundaries == {1, 2, 4, 8}

InitInput ==
    /\ msg = Message(FALSE, FALSE, FALSE, U32One, "MethodCall", PathText(1), None, Text(1),
                     None, <<>>)
    /\ out = NotRun
    /\ serial = U32Zero
    /\ sent = <<>>
    /\ AuthIdle
    /\ CodecIdle
    /\ debug_assertions \in BOOLEAN
    /\ message_data \in MessageData
    /\ cursor_i = I_new(message_data)
    /\ cursor_decoder = Decoder(message_data, 0)
    /\ last_op = NoOperation

\* The bytes the I and the Decoder have passed.
OffsetOfI == Len(message_data) - Len(cursor_i.data)
OffsetOfDecoder == Len(cursor_decoder.original_data) - Len(cursor_decoder.data)

\* No operation has panicked or is stuck in a loop.
StillRunning == last_op.st \notin {"panic", "diverges"}

\* What every operation leaves alone.
OnlyTheInputs ==
    /\ UNCHANGED message_data
    /\ UNCHANGED msgVars
    /\ UNCHANGED authVars
    /\ UNCHANGED codecVars
    /\ UNCHANGED buildVars

\* i.slice(count..): the index panics behind the end of the slice.
SliceI ==
    /\ StillRunning
    /\ \E count \in 0..MaxCount :
          IF count > Len(cursor_i.data)
          THEN /\ last_op' = Operation("slice", "I", count, "panic", OffsetOfI, cursor_i,
                                       I(<<>>, 0))
               /\ UNCHANGED cursor_i
          ELSE /\ cursor_i' = I_slice(cursor_i, count)
               /\ last_op' = Operation("slice", "I", count, "ok", OffsetOfI, cursor_i,
                                       I(<<>>, 0))
    /\ UNCHANGED cursor_decoder
    /\ OnlyTheInputs

\* i.take(count): the prefix, the input itself stays.
TakeI ==
    /\ StillRunning
    /\ \E count \in 0..MaxCount :
          last_op' = IF count > Len(cursor_i.data)
                     THEN Operation("take", "I", count, "panic", OffsetOfI, cursor_i, I(<<>>, 0))
                     ELSE Operation("take", "I", count, "ok", OffsetOfI, cursor_i,
                                    I_take(cursor_i, count))
    /\ UNCHANGED <<cursor_i, cursor_decoder>>
    /\ OnlyTheInputs

\* let (suffix, prefix) = i.take_split(count), going on with the suffix.
TakeSplitI ==
    /\ StillRunning
    /\ \E count \in 0..MaxCount :
          IF count > Len(cursor_i.data)
          THEN /\ last_op' = Operation("take_split", "I", count, "panic", OffsetOfI, cursor_i,
                                       I(<<>>, 0))
               /\ UNCHANGED cursor_i
          ELSE /\ cursor_i' = I_take_split(cursor_i, count).suffix
               /\ last_op' = Operation("take_split", "I", count, "ok", OffsetOfI, cursor_i,
                                       I_take_split(cursor_i, count).prefix)
    /\ UNCHANGED cursor_decoder
    /\ OnlyTheInputs

\* tag(t)(i) for the bytes that come next, and for a byte that does not.
TagI ==
    /\ StillRunning
    /\ \E t \in { SubSeq(cursor_i.data, 1, count) :
                    count \in 0..(IF Len(cursor_i.data) < MaxCount THEN Len(cursor_i.data)
                                  ELSE MaxCount) }
                \cup {<<255>>} :
          LET r == I_tag(t, cursor_i)
          IN  /\ cursor_i' = r.i
              /\ last_op' = Operation("tag", "I", Len(t), r.st, OffsetOfI, cursor_i, r.parsed)
    /\ UNCHANGED cursor_decoder
    /\ OnlyTheInputs

\* i = i.advance_to_boundary(boundary)? on an I.
AdvanceI ==
    /\ StillRunning
    /\ \E boundary \in Boundaries :
          LET r == I_advance_to_boundary(cursor_i, boundary)
          IN  /\ cursor_i' = IF r.st = "ok" THEN r.i ELSE cursor_i
              /\ last_op' = Operation("advance_to_boundary", "I", boundary, r.st, OffsetOfI,
                                      cursor_i, I(<<>>, 0))
    /\ UNCHANGED cursor_decoder
    /\ OnlyTheInputs

\* i.slice(count..) on a Decoder.
SliceDecoder ==
    /\ StillRunning
    /\ \E count \in 0..MaxCount :
          IF count > Len(cursor_decoder.data)
          THEN /\ last_op' = Operation("slice", "Decoder", count, "panic", OffsetOfDecoder,
                                       I(<<>>, 0), I(<<>>, 0))
               /\ UNCHANGED cursor_decoder
          ELSE /\ cursor_decoder' = Decoder_slice(cursor_decoder, count)
               /\ last_op' = Operation("slice", "Decoder", count, "ok", OffsetOfDecoder,
                                       I(<<>>, 0), I(<<>>, 0))
    /\ UNCHANGED cursor_i
    /\ OnlyTheInputs

\* i = i.advance_to_boundary(boundary)? on a Decoder of unmarshal/decoder.rs.
AdvanceDecoder ==
    /\ StillRunning
    /\ \E boundary \in Boundaries :
          LET r == advance_to_boundary(cursor_decoder, boundary)
          IN  /\ cursor_decoder' = IF r.st = "ok" THEN r.i ELSE cursor_decoder
              /\ last_op' = Operation("advance_to_boundary", "Decoder", boundary, r.st,
                                      OffsetOfDecoder, I(<<>>, 0), I(<<>>, 0))
    /\ UNCHANGED cursor_i
    /\ OnlyTheInputs

\* The same call on a Decoder of unmarshall.rs.
AdvanceDecoderOfUnmarshall ==
    /\ StillRunning
    /\ \E boundary \in Boundaries :
          LET r == unmarshall_advance_to_boundary(cursor_decoder, boundary)
          IN  /\ cursor_decoder' = IF r.st = "ok" THEN r.i ELSE cursor_decoder
              /\ last_op' = Operation("advance_to_boundary", "unmarshall::Decoder", boundary,
                                      r.st, OffsetOfDecoder, I(<<>>, 0), I(<<>>, 0))
    /\ UNCHANGED cursor_i
    /\ OnlyTheInputs

NextInput ==
    \/ SliceI
    \/ TakeI
    \/ TakeSplitI
    \/ TagI
    \/ AdvanceI
    \/ SliceDecoder
    \/ AdvanceDecoder
    \/ AdvanceDecoderOfUnmarshall

SpecInput == InitInput /\ [][NextInput]_vars

-----------------------------------------------------------------------------
(* Properties of the emitted messages.                                     *)

\* The messages emitted in this state: that of Message::marshal_be with the
\* header fields it was given, and those of Connection::marshall_message.
EmittedMessages ==
    (IF out.st = "ok"
     THEN {[e |-> out, header_fields |-> message_header_fields(msg)]} ELSE {})
    \cup {[e |-> Emitted("ok", sent[i].buf, sent[i].fields_end, sent[i].header_len),
           header_fields |-> call_header_fields(msg)] :
            i \in {j \in DOMAIN sent : sent[j].st = "ok"}}

BodyLengthField(e) == from_be_bytes(Slice(e.buf, 4, 8))
BodyBytes(e) == Slice(e.buf, e.header_len, Len(e.buf))
RoundUp8(n) == ((n + 7) \div 8) * 8

\* C1: for every Message that Message::marshal_be accepts, the first 12 bytes are
\* 'B', the message type code, the OR of the set flags' bits 0x1 0x2 0x4, the
\* version 1, the body length as a big-endian u32 and the serial as a
\* big-endian u32; a MethodCall with all three flags and an empty body starts
\* with B 01 07 01 00 00 00 00.
C1_FixedHeader ==
    out.st = "ok" =>
        LET bodyLen == Len(out.buf) - out.header_len
        IN  /\ Len(out.buf) >= 12
            /\ out.buf[1] = 66
            /\ out.buf[2] = (CASE msg.message_type = "MethodCall" -> 1
                               [] msg.message_type = "MethodReturn" -> 2
                               [] msg.message_type = "Error" -> 3
                               [] msg.message_type = "Signal" -> 4)
            /\ out.buf[3] = (IF msg.flag_no_reply_expected THEN 1 ELSE 0)
                            + (IF msg.flag_no_auto_start THEN 2 ELSE 0)
                            + (IF msg.flag_allow_interactive_authorization THEN 4 ELSE 0)
            /\ out.buf[4] = 1
            /\ Slice(out.buf, 4, 8) = <<0, bodyLen \div 65536, (bodyLen \div 256) % 256,
                                        bodyLen % 256>>
            /\ bodyLen = Len(marshal_all(EncoderDefault, msg.body).buf)
            /\ Slice(out.buf, 8, 12) = <<msg.serial.hi \div 256, msg.serial.hi % 256,
                                         msg.serial.lo \div 256, msg.serial.lo % 256>>
            /\ (/\ msg.flag_no_reply_expected
                /\ msg.flag_no_auto_start
                /\ msg.flag_allow_interactive_authorization
                /\ msg.body = <<>>)
               => Slice(out.buf, 0, 8) = <<66, 1, 7, 1, 0, 0, 0, 0>>

\* A MethodCall with the three flags set and an empty body has been marshalled.
C1_Witness ==
    /\ out.st = "ok"
    /\ msg.flag_no_reply_expected
    /\ msg.flag_no_auto_start
    /\ msg.flag_allow_interactive_authorization
    /\ msg.body = <<>>
    /\ msg.serial = U32MAX
    /\ Slice(out.buf, 0, 12) = <<66, 1, 7, 1, 0, 0, 0, 0, 255, 255, 255, 255>>

\* The size of one header field struct (y, v) that starts on an 8-byte boundary:
\* the code byte, the variant's signature (length, one code, nul), then the
\* value, which needs no padding at offset 4 of the struct.
FieldSize(header_field) ==
    CASE header_field.inner.t \in {"String", "ObjectPath"} ->
            4 + 4 + Len(header_field.inner.s) + 1
      [] header_field.inner.t = "Signature" ->
            4 + 1 + Len(serialize_all(header_field.inner.sigs)) + 1
      [] header_field.inner.t = "Uint32" -> 4 + 4

\* The message offset at which the i-th header field struct has to start when
\* the first starts at `first` and each later one on the next 8-byte boundary.
RECURSIVE FieldStart(_, _, _)
FieldStart(header_fields, i, first) ==
    IF i = 1 THEN first
    ELSE RoundUp8(FieldStart(header_fields, i - 1, first) + FieldSize(header_fields[i - 1]))

\* The header field array of `m` is laid out relative to the start of the message.
PaddedFromMessageStart(m) ==
    LET n == Len(m.header_fields)
        start(i) == FieldStart(m.header_fields, i, 16)
    IN  /\ n > 0
        /\ BodyLengthField(m.e) >= 0
        /\ from_be_bytes(Slice(m.e.buf, 12, 16)) = m.e.fields_end - 16
        /\ \A i \in 1..n :
              /\ start(i) % 8 = 0
              /\ start(i) < m.e.fields_end
              /\ m.e.buf[start(i) + 1] = decimal_code(m.header_fields[i])
        /\ m.e.fields_end = start(n) + FieldSize(m.header_fields[n])

\* C2: in every marshalled message the header-field array is padded relative to
\* the start of the message: its length is at offsets 12..16, its first struct
\* starts at offset 16 and every later struct at a multiple of 8; for both
\* emitters, Message::marshal_be and Header::marshall.
C2_HeaderFieldsPaddedFromMessageStart ==
    \A m \in EmittedMessages : PaddedFromMessageStart(m)

\* C3: a body of several arguments is padded against the running offset from
\* the start of the body: it equals what one encoder produces marshalling the
\* arguments one after another, and (Byte 1, Int32 2) takes 8 bytes; for
\* Body::marshall_be and for the body inside Message::marshal_be.
C3_BodyPaddedFromBodyStart ==
    \A m \in EmittedMessages :
        /\ BodyBytes(m.e) = marshal_all(EncoderDefault, msg.body).buf
        /\ msg.body = <<DBusByte(1), DBusInt32(2)>>
              => BodyBytes(m.e) = <<1, 0, 0, 0, 0, 0, 0, 2>>

\* C4: the BodyLength field of every marshalled message is the number of bytes
\* that follow the padded header (the 12 fixed bytes, the header-field array
\* and the zero padding to 8); the padding is not counted in it.
C4_BodyLengthIsBytesAfterHeader ==
    \A m \in EmittedMessages :
        /\ m.e.fields_end >= 16
        /\ m.e.header_len = RoundUp8(m.e.fields_end)
        /\ m.e.header_len <= Len(m.e.buf)
        /\ BodyLengthField(m.e) = Len(m.e.buf) - m.e.header_len

\* Both emitters have marshalled a message whose header needed padding and whose
\* body length is no multiple of 8.
C4_Witness ==
    /\ out.st = "ok"
    /\ out.header_len > out.fields_end
    /\ Len(sent) > 0
    /\ sent[1].st = "ok"
    /\ sent[1].header_len > sent[1].fields_end
    /\ BodyLengthField(out) % 8 # 0
    /\ BodyLengthField(sent[1]) % 8 # 0

\* C5: the marshalled header has a length that is a multiple of 8, the bytes
\* added after the header-field array are fewer than 8 and all 0x00, and the
\* body starts right after them, at a multiple of 8.
C5_HeaderEndsOnEightBoundary ==
    \A m \in EmittedMessages :
        /\ m.e.header_len % 8 = 0
        /\ m.e.fields_end <= m.e.header_len
        /\ m.e.header_len - m.e.fields_end < 8
        /\ \A k \in (m.e.fields_end + 1)..m.e.header_len : m.e.buf[k] = 0
        /\ m.e.header_len <= Len(m.e.buf)
        /\ Len(BodyBytes(m.e)) = BodyLengthField(m.e)

\* Both emitters have padded a header in front of a body that is not empty.
C5_Witness ==
    /\ out.st = "ok"
    /\ Len(sent) > 0
    /\ sent[1].st = "ok"
    /\ out.header_len - out.fields_end > 0
    /\ sent[1].header_len - sent[1].fields_end > 0
    /\ Len(BodyBytes(out)) > 0

\* C6: on one connection the k-th emitted message carries serial k: every
\* assigned serial is nonzero, one more than the counter before the call, and
\* greater than every serial assigned earlier.
C6_SerialsStrictlyIncrease ==
    \A i \in DOMAIN sent :
        sent[i].st = "ok" =>
            /\ sent[i].serial # U32Zero
            /\ U32Less(sent[i].before, sent[i].serial)
            /\ Slice(sent[i].buf, 8, 12) = u32_to_be_bytes(sent[i].serial)
            /\ \A j \in 1..(i - 1) :
                  sent[j].st = "ok" => U32Less(sent[j].serial, sent[i].serial)

\* C7: when the counter is at u32::MAX the next send fails with an error
\* instead of wrapping: it emits no message and no serial 0.
C7_OverflowFailsTheSend ==
    \A i \in DOMAIN sent :
        sent[i].before = U32MAX =>
            /\ sent[i].st = "err"
            /\ sent[i].serial = sent[i].before

-----------------------------------------------------------------------------
(* Properties of the handshake.                                            *)

\* The number of places at which `needle` occurs in `bytes`.
Occurrences(bytes, needle) ==
    Cardinality({k \in 0..(Len(bytes) - Len(needle)) :
                    Slice(bytes, k, k + Len(needle)) = needle})

\* The reply line that auth got starts with "OK".
ReplyStartsWithOK ==
    /\ reply.st = "ok"
    /\ Len(reply.text) >= 2
    /\ reply.text[1] = 79
    /\ reply.text[2] = 75

\* The null byte and the AUTH EXTERNAL line, and all that new_system writes
\* before its first D-Bus message.
UpToAuthLine == <<0>> \o AUTH_EXTERNAL \o get_auth_external_param(uid) \o CRLF
UpToBegin == UpToAuthLine \o BEGIN \o CRLF

\* C8: during new_system the bytes written to the transport are, in this
\* order, the null byte, 'AUTH EXTERNAL <hex>' CR LF, then (only after a reply
\* line starting with OK was read) 'BEGIN' CR LF, and only after that any byte
\* of a D-Bus message.
C8_HandshakeWriteOrder ==
    /\ IsPrefix(wire, written)
    /\ IsPrefix(written, UpToBegin) \/ IsPrefix(UpToBegin, written)
    /\ Len(written) > Len(UpToAuthLine) => ReplyStartsWithOK
    /\ pc \in {"auth_read", "begin", "say_hello"} => IsPrefix(UpToAuthLine, wire)
    /\ uid = 1000 => get_auth_external_param(uid) = <<51, 49, 51, 48, 51, 48, 51, 48>>

\* BEGIN has reached the transport, after the null byte and the AUTH line.
C8_Witness ==
    /\ pc = "say_hello"
    /\ wire = UpToBegin
    /\ uid = 1000

\* C9: a reply line that does not start with OK makes auth return FailedAuth:
\* BEGIN is never written, no D-Bus message is sent and new_system returns the
\* error; after a line that starts with OK, BEGIN is written exactly once.
C9_ReplyDecidesBegin ==
    /\ (reply.st = "ok" /\ ~ReplyStartsWithOK) =>
          /\ pc = "done"
          /\ result = "FailedAuth"
          /\ Occurrences(written, BEGIN) = 0
          /\ written = UpToAuthLine
          /\ wire = written
    /\ result = "FailedAuth" => (reply.st = "ok" /\ ~ReplyStartsWithOK)
    /\ (ReplyStartsWithOK /\ pc \in {"say_hello", "done"}) =>
          Occurrences(written, BEGIN \o CRLF) = 1
    /\ pc = "say_hello" => Occurrences(wire, BEGIN \o CRLF) = 1
    /\ Occurrences(written, BEGIN) <= 1

\* The server has answered REJECTED EXTERNAL and new_system has returned.
C9_Witness ==
    /\ reply.st = "ok"
    /\ reply.text = <<82, 69, 74, 69, 67, 84, 69, 68, 32, 69, 88, 84, 69, 82, 78, 65, 76>>
    /\ result = "FailedAuth"
    /\ written = UpToAuthLine

\* C10: when the transport is at end of file, or delivers a line that does not
\* end in CR LF, while auth waits for the reply, new_system returns an error
\* value and the program does not abort; the line auth_read_line returns never
\* holds the terminator.
C10_BadReplyIsAnError ==
    /\ (reply.st \notin {"unread", "err"} /\ ~ends_with(reply.raw, CRLF)) =>
          result \in {"IoError", "FailedAuth"}
    /\ reply.st = "ok" => \A k \in DOMAIN reply.text : reply.text[k] # 10

\* say_hello has built its call.
HelloBuilt == pc = "done" /\ msg.member = HELLO

\* C11: the Hello message say_hello builds right after authentication is a
\* MethodCall to destination org.freedesktop.DBus, path /org/freedesktop/DBus
\* (with the leading slash), interface org.freedesktop.DBus, member Hello, with
\* an empty body, no flag set, and it is marshalled with serial 1.
C11_HelloMessage ==
    HelloBuilt =>
        /\ msg.message_type = "MethodCall"
        /\ msg.destination = Some(ORG_FREEDESKTOP_DBUS_NAME)
        /\ msg.path = <<47>> \o ORG_FREEDESKTOP_DBUS_PATH
        /\ msg.interface = Some(ORG_FREEDESKTOP_DBUS_NAME)
        /\ msg.member = HELLO
        /\ msg.body = <<>>
        /\ flag_set(msg) = {}
        /\ Len(sent) = 1
        /\ sent[1].st = "ok"
        /\ sent[1].serial = U32One


\* C12: a send whose marshalling fails with an error (an argument of the body
\* cannot be marshalled, or the body's length does not fit a u32) leaves the
\* connection as it was: it produces no bytes to write and the serial counter
\* has not advanced.
C12_FailedSendKeepsSerial ==
    \A i \in DOMAIN sent :
        sent[i].st = "err" =>
            /\ sent[i].buf = <<>>
            /\ sent[i].serial = sent[i].before


-----------------------------------------------------------------------------
(* Properties of the encoder and the decoders.                             *)

\* The null bytes that bring offset n to the next multiple of a.
Padding(n, a) == [i \in 1..((a - (n % a)) % a) |-> 0]

\* The alignment of a type of fixed width.
FixedAlignment(v) ==
    CASE v.t = "Byte" -> 1
      [] v.t \in {"Int16", "Uint16"} -> 2
      [] v.t \in {"Int32", "Uint32", "Boolean"} -> 4
      [] v.t \in {"Int64", "Uint64", "Double"} -> 8

\* The bytes of a value of fixed width, without padding.
FixedBytes(v) ==
    IF v.t = "Double" THEN v.s ELSE to_be_bytes(v.n, FixedAlignment(v))

\* buf followed by the values vs of fixed width, each behind its padding.
RECURSIVE FixedLayout(_, _)
FixedLayout(buf, vs) ==
    IF vs = <<>> THEN buf
    ELSE FixedLayout(buf \o Padding(Len(buf), FixedAlignment(Head(vs))) \o FixedBytes(Head(vs)),
                     Tail(vs))

IsFixedWidth(v) ==
    v.t \in {"Byte", "Boolean", "Int16", "Uint16", "Int32", "Uint32", "Int64", "Uint64",
             "Double"}
AllFixedWidth(vs) == \A i \in DOMAIN vs : IsFixedWidth(vs[i])

\* C13: whatever the buffer holds before the write and wherever the value is
\* (top level, struct field, array element, variant payload), a value of fixed
\* width is preceded by the fewest null bytes that make the offset a multiple
\* of its alignment (1, 2, 4 with boolean, 8 with double), and a struct starts
\* at a multiple of 8 and has no trailing padding; the struct (yx) at offset 0
\* is 1 byte, 7 null bytes and the int64.
C13_FixedWidthAlignment ==
    encoded.st # "none" =>
        LET buf == encoder.buf
            n == Len(buf)
            v == dbus_value
        IN  /\ IsFixedWidth(v) =>
                   encoded = Encoder(FixedLayout(buf, <<v>>))
            /\ (v.t = "Struct" /\ AllFixedWidth(v.sub)) =>
                   encoded = Encoder(FixedLayout(buf \o Padding(n, 8), v.sub))
            /\ (v.t = "Variant" /\ AllFixedWidth(v.sub)) =>
                   encoded = Encoder(FixedLayout(
                       buf \o <<1>> \o serialize(signature(v.sub[1])) \o <<0>>, v.sub))
            /\ ( /\ v.t = "Array"
                 /\ IsFixedWidth([t |-> v.sigs[1].k])
                 /\ \A i \in DOMAIN v.sub : signature(v.sub[i]) = v.sigs[1] ) =>
                   LET head == buf \o Padding(n, 4)
                       first == Len(head) + 4
                                + Len(Padding(Len(head) + 4, marshalling_boundary(v.sigs[1])))
                   IN  /\ encoded.st = "ok"
                       /\ Len(encoded.buf) >= first
                       /\ SubSeq(encoded.buf, 1, Len(head)) = head
                       /\ \A k \in (Len(head) + 5)..first : encoded.buf[k] = 0
                       /\ encoded.buf =
                             FixedLayout(SubSeq(encoded.buf, 1, first), v.sub)
            /\ (v = DBusStruct(<<DBusByte(1), DBusInt64(5)>>) /\ n = 0) =>
                   encoded.buf = <<1, 0, 0, 0, 0, 0, 0, 0, 0, 0, 0, 0, 0, 0, 0, 5>>

\* The struct (yx) was marshalled behind three bytes, and so was padded twice.
C13_Witness ==
    /\ dbus_value = DBusStruct(<<DBusByte(1), DBusInt64(5)>>)
    /\ Len(encoder.buf) = 3
    /\ encoded.st = "ok"
    /\ Len(encoded.buf) = 24


\* The alignment of the D-Bus type with signature sig.
AlignmentOf(sig) ==
    CASE sig.k \in {"Byte", "Signature", "Variant"} -> 1
      [] sig.k \in {"Int16", "Uint16"} -> 2
      [] sig.k \in {"Boolean", "Int32", "Uint32", "String", "ObjectPath", "Array",
                    "UnixFileDescriptor"} -> 4
      [] sig.k \in {"Int64", "Uint64", "Double", "Struct", "DictEntry"} -> 8

\* C14: an array is marshalled as padding to 4, a big-endian u32 length,
\* padding to the alignment of the element type (also when there is no
\* element), then the elements; the length is the offset after the last
\* element minus the offset of the first, so it counts the padding between
\* elements and not that in front of the first.  At offset 0 the empty a(ii)
\* is 8 null bytes and the byte array [0F, 10, 11] is 00 00 00 03 0F 10 11.
C14_ArrayLayout ==
    (encoded.st = "ok" /\ dbus_value.t = "Array") =>
        LET buf == encoder.buf
            v == dbus_value
            head == buf \o Padding(Len(buf), 4)
            gap == Padding(Len(head) + 4, AlignmentOf(v.sigs[1]))
            first == Len(head) + 4 + Len(gap)
            length == Len(encoded.buf) - first
        IN  /\ length >= 0
            /\ SubSeq(encoded.buf, 1, first) = head \o to_be_bytes(length, 4) \o gap
            /\ encoded = marshal_all(Encoder(SubSeq(encoded.buf, 1, first)), v.sub)
            /\ v.sub = <<>> => length = 0
            /\ (v = DBusArray(SigStruct(<<SigInt32, SigInt32>>), <<>>) /\ buf = <<>>) =>
                   encoded.buf = <<0, 0, 0, 0, 0, 0, 0, 0>>
            /\ (v = DBusArray(SigByte, <<DBusByte(15), DBusByte(16), DBusByte(17)>>)
                /\ buf = <<>>) =>
                   encoded.buf = <<0, 0, 0, 3, 15, 16, 17>>
            /\ (v = DBusArray(SigStruct(<<SigByte, SigUint16>>),
                              <<DBusStruct(<<DBusByte(1), DBusUint16(2)>>),
                                DBusStruct(<<DBusByte(3), DBusUint16(4)>>)>>)) =>
                   length = 12

\* An array of two structs (yq) was marshalled behind five bytes: padding in
\* front of the length, in front of the first struct and between the structs.
C14_Witness ==
    /\ dbus_value = DBusArray(SigStruct(<<SigByte, SigUint16>>),
                              <<DBusStruct(<<DBusByte(1), DBusUint16(2)>>),
                                DBusStruct(<<DBusByte(3), DBusUint16(4)>>)>>)
    /\ Len(encoder.buf) = 5
    /\ encoded.st = "ok"
    /\ encoded.buf = <<255, 255, 255, 255, 255, 0, 0, 0, 0, 0, 0, 12, 0, 0, 0, 0,
                       1, 0, 0, 2, 0, 0, 0, 0, 3, 0, 0, 4>>


\* C15: a String, and an ObjectPath alike, is marshalled as padding to 4, the
\* number of bytes of the text (without the terminator) as a big-endian u32,
\* the bytes of the text and one null byte; "hello" at offset 0 is
\* 00 00 00 05 68 65 6C 6C 6F 00.
C15_StringLayout ==
    (encoded.st # "none" /\ dbus_value.t \in {"String", "ObjectPath"}) =>
        LET buf == encoder.buf
            text == dbus_value.s
            start == Len(buf) + Len(Padding(Len(buf), 4))
        IN  /\ encoded = Encoder(buf \o Padding(Len(buf), 4) \o to_be_bytes(Len(text), 4)
                                 \o text \o <<0>>)
            /\ from_be_bytes(Slice(encoded.buf, start, start + 4))
                  = Len(encoded.buf) - 1 - (start + 4)
            /\ (text = <<104, 101, 108, 108, 111>> /\ buf = <<>>) =>
                   encoded.buf = <<0, 0, 0, 5, 104, 101, 108, 108, 111, 0>>

\* "hello" was marshalled behind a buffer of two bytes.
C15_Witness ==
    /\ dbus_value = DBusString(<<104, 101, 108, 108, 111>>)
    /\ Len(encoder.buf) = 2
    /\ encoded.st = "ok"
    /\ encoded.buf = <<255, 255, 0, 0, 0, 0, 0, 5, 104, 101, 108, 108, 111, 0>>


\* C16: a Signature is marshalled without padding as one byte holding the
\* number of bytes of its text, the text of its single complete types in
\* order, and one null byte ([String, Int32] is 02 73 69 00, the empty
\* signature 00 00); when the text is longer than 255 bytes the marshal
\* returns an error.
C16_SignatureLayout ==
    (encoded.st # "none" /\ dbus_value.t = "Signature") =>
        LET buf == encoder.buf
            text == serialize_all(dbus_value.sigs)
        IN  /\ Len(text) <= 255 =>
                   encoded = Encoder(buf \o <<Len(text)>> \o text \o <<0>>)
            /\ Len(text) > 255 => encoded.st = "err"
            /\ dbus_value.sigs = <<SigString, SigInt32>> =>
                   encoded.buf = buf \o <<2, 115, 105, 0>>
            /\ dbus_value.sigs = <<>> => encoded.buf = buf \o <<0, 0>>

\* A signature of 256 bytes was refused by an Encoder that held three bytes.
C16_Witness ==
    /\ dbus_value = DBusSignature(LongSignature)
    /\ Len(serialize_all(dbus_value.sigs)) = 256
    /\ Len(encoder.buf) = 3
    /\ encoded.st = "err"


\* The input of a decoder from the place where the value is due: behind the
\* bytes a Decoder has passed and the padding to `boundary` behind them.
DueAt(i, boundary) ==
    SliceFrom(i.data, i.consumed + (IF i.via = "Decoder"
                                    THEN Len(Padding(i.consumed, boundary)) ELSE 0))

\* C17: a Boolean is marshalled as a 4-aligned big-endian u32, 1 for true and
\* 0 for false; unmarshalling a boolean succeeds for the u32 values 0 (false)
\* and 1 (true) only: every other u32 and every input shorter than 4 bytes is
\* a parse error without a value.
C17_BooleanIsZeroOrOne ==
    /\ (encoded.st # "none" /\ dbus_value.t = "Boolean") =>
          encoded = Encoder(encoder.buf \o Padding(Len(encoder.buf), 4)
                            \o <<0, 0, 0, IF dbus_value = DBusBoolean(TRUE) THEN 1 ELSE 0>>)
    /\ (unmarshalled.st # "none" /\ input.type = SigBoolean) =>
          LET word == DueAt(input, 4)
              padded == input.via = "Decoder" =>
                            IsPrefix(Padding(input.consumed, 4),
                                     SliceFrom(input.data, input.consumed))
          IN  /\ unmarshalled.st \in {"ok", "err"}
              /\ unmarshalled.st = "ok" =>
                    /\ Len(word) >= 4
                    /\ SubSeq(word, 1, 4) \in {<<0, 0, 0, 0>>, <<0, 0, 0, 1>>}
                    /\ unmarshalled.value = DBusBoolean(word[4] = 1)
                    /\ unmarshalled.rest = SliceFrom(word, 4)
              /\ (padded /\ Len(word) >= 4 /\ SubSeq(word, 1, 4) = <<0, 0, 0, 0>>) =>
                    unmarshalled = Unmarshalled(DBusBoolean(FALSE), SliceFrom(word, 4))
              /\ (padded /\ Len(word) >= 4 /\ SubSeq(word, 1, 4) = <<0, 0, 0, 1>>) =>
                    unmarshalled = Unmarshalled(DBusBoolean(TRUE), SliceFrom(word, 4))

\* The u32 value 2 behind a byte and three null bytes was refused by the
\* Unmarshal impl of the boolean.
C17_Witness ==
    /\ input = DecoderInput(SigBoolean, <<255, 0, 0, 0, 0, 0, 0, 2>>, 1)
    /\ unmarshalled.st = "err"


-----------------------------------------------------------------------------
(* Properties of the header fields of Message::marshal_be, read back from  *)
(* the bytes of the message.                                               *)

\* The header field structs between message offsets pos and end, as
\* [code, signature, value]: each starts on an 8-byte boundary with its code
\* and the signature of its variant; the value of a signature g is a length
\* byte, text and nul, that of s and o a 4-aligned u32 length, text and nul.
RECURSIVE ParsedFields(_, _, _)
ParsedFields(buf, pos, end) ==
    IF pos >= end THEN <<>>
    ELSE LET start == RoundUp8(pos)
             code == buf[start + 1]
             sig_len == buf[start + 2]
             sig == Slice(buf, start + 2, start + 2 + sig_len)
             p == start + 2 + sig_len + 1
             q == p + Len(Padding(p, 4))
             len == IF sig = <<103>> THEN buf[p + 1] ELSE from_be_bytes(Slice(buf, q, q + 4))
             from == IF sig = <<103>> THEN p + 1 ELSE q + 4
         IN  <<[code |-> code, signature |-> sig, value |-> Slice(buf, from, from + len)]>>
             \o ParsedFields(buf, from + len + 1, end)

\* The header fields of the message in `out`.
OutFields == ParsedFields(out.buf, 16, 16 + from_be_bytes(Slice(out.buf, 12, 16)))

\* C18: the header-field array Message::marshal_be emits for a MethodCall
\* holds exactly Signature (code 8, signature g), Path (1, o), Member (3, s),
\* Interface (2, s) if and only if the interface is set, and Destination (6, s)
\* if and only if the destination is set; no code twice and no other code.
C18_MethodCallHeaderFields ==
    out.st = "ok" =>
        LET expected ==
                { [code |-> 8, signature |-> <<103>>],
                  [code |-> 1, signature |-> <<111>>],
                  [code |-> 3, signature |-> <<115>>] }
                \cup (IF msg.interface.some
                      THEN {[code |-> 2, signature |-> <<115>>]} ELSE {})
                \cup (IF msg.destination.some
                      THEN {[code |-> 6, signature |-> <<115>>]} ELSE {})
            fields == OutFields
        IN  /\ msg.message_type = "MethodCall"
            /\ { [code |-> fields[i].code, signature |-> fields[i].signature] :
                    i \in DOMAIN fields } = expected
            /\ Len(fields) = Cardinality(expected)
            /\ \A i \in DOMAIN fields :
                  /\ fields[i].code = 1 => fields[i].value = msg.path
                  /\ fields[i].code = 3 => fields[i].value = msg.member
                  /\ fields[i].code = 2 => fields[i].value = msg.interface.string
                  /\ fields[i].code = 6 => fields[i].value = msg.destination.string

\* A method call with interface and destination was marshalled with five
\* header fields.
C18_Witness ==
    /\ out.st = "ok"
    /\ msg.interface.some
    /\ msg.destination.some
    /\ Len(OutFields) = 5

\* The text of the signatures of the arguments, in their order.
RECURSIVE ArgumentSignatures(_)
ArgumentSignatures(arguments) ==
    IF arguments = <<>> THEN <<>>
    ELSE serialize(signature(Head(arguments))) \o ArgumentSignatures(Tail(arguments))

\* C19: Message::marshal_be always emits a Signature header field (code 8),
\* also for an empty body; its value is the signatures of the body's
\* arguments in their order, one after the other (the empty signature for the
\* empty body), where an array contributes a and the signature of its element
\* type also when it has no element.
C19_SignatureFieldIsBodySignature ==
    out.st = "ok" =>
        LET fields == OutFields
            found == { i \in DOMAIN fields : fields[i].code = 8 }
        IN  /\ Cardinality(found) = 1
            /\ \A i \in found :
                  /\ fields[i].signature = <<103>>
                  /\ fields[i].value = ArgumentSignatures(msg.body)
                  /\ msg.body = <<>> => fields[i].value = <<>>
                  /\ msg.body = <<DBusArray(SigStruct(<<SigInt32, SigInt32>>), <<>>),
                                  DBusString(<<97>>)>>
                        => fields[i].value = <<97, 40, 105, 105, 41, 115>>
                  /\ msg.body = <<DBusByte(1), DBusInt32(2)>>
                        => fields[i].value = <<121, 105>>

\* A message whose body begins with an array without elements was marshalled.
C19_Witness ==
    /\ out.st = "ok"
    /\ Len(msg.body) = 2
    /\ msg.body[1].t = "Array"
    /\ msg.body[1].sub = <<>>
    /\ \E i \in DOMAIN OutFields :
          OutFields[i].code = 8 /\ OutFields[i].value = <<97, 40, 105, 105, 41, 115>>


-----------------------------------------------------------------------------
(* Properties of unmarshalling what the encoder marshalled.                *)

\* The types whose values are unmarshalled to what was marshalled.
RoundTripTypes ==
    { "Byte", "Boolean", "Int16", "Uint16", "Int32", "Uint32", "Int64", "Uint64",
      "String" }

\* Byte strings that are no UTF-8: a byte that never occurs, a lead byte with
\* a wrong or a missing continuation, an encoded surrogate.
NotUtf8 == { <<255>>, <<195, 40>>, <<195>>, <<237, 160, 128>> }

\* C20: for a value of type Byte, Boolean, Int16, Uint16, Int32, Uint32,
\* Int64, Uint64 or String, unmarshalling the bytes a fresh Encoder produced
\* for it gives back an equal value and leaves no input; the decoder of String
\* fails when the declared length is more than the input that is left, when
\* the text is no UTF-8 and when the byte behind the text is not 0x00, and
\* otherwise gives the text and the input behind the null byte.
C20_RoundTrip ==
    /\ ( /\ encoded.st = "ok"
         /\ input # NoInput
         /\ dbus_value.t \in RoundTripTypes )
       => /\ input.data = encoded.buf
          /\ unmarshalled = Unmarshalled(dbus_value, <<>>)
    /\ ( /\ encoded.st = "none"
         /\ input.via = "slice"
         /\ input.type = SigString
         /\ unmarshalled # NotUnmarshalled )
       => LET d == input.data
              declared == from_be_bytes(Slice(d, 0, 4))
              left == Len(d) - 4
              text == Slice(d, 4, 4 + declared)
          IN  IF \/ Len(d) < 4
                 \/ declared > left
                 \/ text \in NotUtf8
                 \/ left = declared
                 \/ d[4 + declared + 1] # 0
              THEN unmarshalled.st = "err"
              ELSE unmarshalled = Unmarshalled(DBusString(text), SliceFrom(d, 4 + declared + 1))

\* The string "hello" went through the encoder and the decoder.
C20_Witness ==
    /\ dbus_value = DBusString(<<104, 101, 108, 108, 111>>)
    /\ encoded.st = "ok"
    /\ input = SliceInput(SigString, <<0, 0, 0, 5, 104, 101, 108, 108, 111, 0>>)
    /\ unmarshalled.st = "ok"


\* The array in dbus_value has only items of its item type.
WellTypedArray ==
    /\ dbus_value.t = "Array"
    /\ \A k \in DOMAIN dbus_value.sub : signature(dbus_value.sub[k]) = dbus_value.sigs[1]

\* C21: for an array of Byte, Boolean, Int16, Uint16, Int32, Uint32, Int64,
\* Uint64 or String items, with or without items, DBusArray::unmarshal_be on
\* the bytes a fresh Encoder produced for it returns an array of the same
\* item type with the same items in the same order.
C21_ArrayRoundTrip ==
    ( /\ encoded.st = "ok"
      /\ input # NoInput
      /\ WellTypedArray
      /\ dbus_value.sigs[1].k \in RoundTripTypes )
    => /\ unmarshalled.st = "ok"
       /\ unmarshalled.value = dbus_value


\* The input of the test unmarshal_basic_signature.
BasicSignatureOfTheTest == <<9, 121, 98, 110, 113, 105, 117, 120, 116, 100>>

\* C23: for a signature text of the basic type codes y b n q i u x t d s o h
\* behind its length byte, DBusSignature::unmarshal_be returns one single
\* complete type per code in the order of the text, and the serialize of
\* these types, one after the other, is the text again, of the same length.
C23_BasicSignatureRendersBack ==
    ( /\ input.via = "slice"
      /\ input.type = SigSignature
      /\ unmarshalled # NotUnmarshalled
      /\ Len(input.data) >= 1
      /\ Len(input.data) >= 1 + input.data[1]
      /\ \A k \in 2..(1 + input.data[1]) :
            input.data[k] \in {121, 98, 110, 113, 105, 117, 120, 116, 100, 115, 111, 104} )
    => LET text == Slice(input.data, 1, 1 + input.data[1])
           vec == unmarshalled.value.sigs
       IN  /\ unmarshalled.st = "ok"
           /\ unmarshalled.value.t = "Signature"
           /\ Len(vec) = Len(text)
           /\ \A k \in DOMAIN vec : serialize(vec[k]) = <<text[k]>>
           /\ serialize_all(vec) = text
           /\ input.data = BasicSignatureOfTheTest =>
                 vec = <<SigByte, SigBoolean, SigInt16, SigUint16, SigInt32, SigUint32,
                         SigInt64, SigUint64, Sig("Double", <<>>)>>

\* The signature of the test was unmarshalled to nine types.
C23_Witness ==
    /\ input = SliceInput(SigSignature, BasicSignatureOfTheTest)
    /\ unmarshalled.st = "ok"
    /\ Len(unmarshalled.value.sigs) = 9

\* C24: the text of the signature of an array of dict entries is a, {, the
\* key code, the value signature and }: Array(DictEntry{String, Variant}) is
\* rendered as a{sv} with a single leading a, and the dict entry itself as
\* its braces around its two member signatures.
C24_ArrayOfDictEntries ==
    encoded.st = "ok" =>
        /\ dbus_value = DBusSignature(<<SigArray(SigDictEntry(SigString, SigVariant))>>) =>
              encoded.buf = encoder.buf \o <<5, 97, 123, 115, 118, 125, 0>>
        /\ dbus_value = DBusSignature(<<SigDictEntry(SigString, SigVariant)>>) =>
              encoded.buf = encoder.buf \o <<4, 123, 115, 118, 125, 0>>

\* The array in dbus_value holds an item whose signature is not its item_type.
MismatchedArray == dbus_value.t = "Array" /\ ~WellTypedArray

\* C25: marshalling an array with an item whose signature differs from the
\* item type of the array returns an error in every build, and never writes
\* the array as if it were valid.
C25_MismatchedItemIsAnError ==
    (MismatchedArray /\ encoded # NotEncoded) => encoded.st = "err"

\* C28: the input DBusArray::unmarshal_be returns with its array begins
\* `length` bytes behind the first item, and the input
\* DBusSignature::unmarshal_be returns with its signature begins behind the
\* text and its terminator, which is a null byte.
C28_RestBehindTheValue ==
    (input.via = "slice" /\ unmarshalled.st = "ok") =>
        LET d == input.data
        IN  /\ input.type.k = "Array" =>
                  LET length == from_be_bytes(Slice(d, 0, 4))
                      first == 4 + Len(Padding(4, AlignmentOf(input.type.sub[1])))
                  IN  unmarshalled.rest = SliceFrom(d, first + length)
            /\ input.type.k = "Signature" =>
                  /\ Len(d) >= d[1] + 2
                  /\ d[d[1] + 2] = 0
                  /\ unmarshalled.rest = SliceFrom(d, d[1] + 2)

-----------------------------------------------------------------------------
(* Properties of unmarshal_message.                                        *)

\* C22: unmarshal_message on the bytes Message::marshal_be returned for a
\* message comes back with a message equal to it: the same message type, the
\* same three flags and the same serial (and header fields and body).
C22_MessageRoundTrip ==
    (out.st = "ok" /\ unmarshalled_message # NotParsed) =>
        /\ unmarshalled_message.st = "ok"
        /\ unmarshalled_message.message_type = msg.message_type
        /\ unmarshalled_message.flag_bitfield = message_flags(msg)
        /\ unmarshalled_message.serial = msg.serial


\* The u32 in the four bytes b, lowest byte first, and highest byte first.
LittleEndianU32(b) == U32(256 * b[4] + b[3], 256 * b[2] + b[1])
BigEndianU32(b) == U32(256 * b[1] + b[2], 256 * b[3] + b[4])

\* unmarshal_message was run on an input whose first four bytes and length
\* are those of a fixed header.
SoundFixedHeader ==
    /\ input.via = "unmarshal_message"
    /\ unmarshalled_message # NotParsed
    /\ Len(input.data) >= 12
    /\ input.data[1] \in {66, 108}
    /\ input.data[2] \in 1..4
    /\ input.data[4] = 1

\* C26: the body length and the serial of the fixed header are read in the
\* byte order the first byte names, big-endian behind B and little-endian
\* behind l, so that the two encodings of a header give the same two numbers;
\* and behind an l header the unmarshalling goes on and does not stop.
C26_ByteOrderOfTheFirstByte ==
    SoundFixedHeader =>
        LET length == Slice(input.data, 4, 8)
            serial_bytes == Slice(input.data, 8, 12)
        IN  /\ input.data[1] = 66 =>
                  /\ unmarshalled_message.length_in_bytes_of_message_body = BigEndianU32(length)
                  /\ unmarshalled_message.serial = BigEndianU32(serial_bytes)
            /\ input.data[1] = 108 =>
                  /\ unmarshalled_message.length_in_bytes_of_message_body
                        = LittleEndianU32(length)
                  /\ unmarshalled_message.serial = LittleEndianU32(serial_bytes)
                  /\ unmarshalled_message.st # "panic"


\* C27: unmarshal_message answers Error::ParseError, and no message, when the
\* first byte is neither B nor l, when the second is not one of the type codes
\* 1 .. 4, when the fourth is not the major protocol version 1, and when the
\* input has less than 12 bytes; and Endianness::unmarshal and
\* MessageType::unmarshal undo ascii_code and decimal_value.
C27_MalformedFixedHeader ==
    /\ ( /\ input.via = "unmarshal_message"
         /\ unmarshalled_message # NotParsed
         /\ \/ Len(input.data) < 12
            \/ input.data[1] \notin {66, 108}
            \/ input.data[2] \notin 1..4
            \/ input.data[4] # 1 )
       => unmarshalled_message.st = "err"
    /\ SoundFixedHeader =>
          /\ ascii_code(unmarshalled_message.endianness) = input.data[1]
          /\ decimal_value(unmarshalled_message.message_type) = input.data[2]
    /\ \A e \in {"BigEndian", "LittleEndian"} :
          Endianness_unmarshal(<<ascii_code(e)>>) = [st |-> "ok", value |-> e, rest |-> <<>>]
    /\ \A t \in {"MethodCall", "MethodReturn", "Error", "Signal"} :
          MessageType_unmarshal(<<decimal_value(t)>>) = [st |-> "ok", value |-> t, rest |-> <<>>]

\* A header with major protocol version 2 and nothing else wrong was refused.
C27_Witness ==
    /\ input.via = "unmarshal_message"
    /\ Len(input.data) = 20
    /\ input.data[1] = 66
    /\ input.data[2] = 4
    /\ input.data[4] = 2
    /\ unmarshalled_message.st = "err"


-----------------------------------------------------------------------------
(* Properties of the decoder inputs.                                       *)

\* The number of bytes from offset up to the next multiple of boundary.
BytesToBoundary(offset, boundary) == (boundary - (offset % boundary)) % boundary

\* C29: advance_to_boundary(b) with b one of 1, 2, 4, 8 consumes the fewest
\* bytes (0 .. b-1) that make the offset from the start of the message a
\* multiple of b, none when it is one already, and is a parse error when one
\* of these bytes is not null or the input ends before; on a Decoder and on
\* an I alike.
C29_AdvanceToBoundary ==
    last_op.op = "advance_to_boundary" =>
        LET due == BytesToBoundary(last_op.offset, last_op.arg)
            padding == SubSeq(message_data, last_op.offset + 1, last_op.offset + due)
            now == IF last_op.on = "I" THEN OffsetOfI ELSE OffsetOfDecoder
        IN  IF /\ last_op.offset + due <= Len(message_data)
               /\ \A k \in DOMAIN padding : padding[k] = 0
            THEN last_op.st = "ok" /\ now = last_op.offset + due
            ELSE last_op.st = "err"

\* C30: an I keeps its alignment equal to the number of bytes passed since
\* the start of the message modulo 8: 0 from I::new; behind slice(n..), as the
\* remainder of take_split(n) and behind a tag of n bytes the old alignment
\* plus n modulo 8; the prefix that take, take_split and tag return keeps the
\* old alignment; and the alignment is always one of 0 .. 7.
C30_AlignmentFollowsTheOffset ==
    /\ cursor_i.alignment \in 0..7
    /\ cursor_i.alignment = OffsetOfI % 8
    /\ cursor_i.data = SliceFrom(message_data, OffsetOfI)
    /\ last_op = NoOperation => cursor_i.alignment = 0
    /\ (last_op.on = "I" /\ last_op.st = "ok") =>
          /\ last_op.op \in {"slice", "take_split", "tag"} =>
                cursor_i.alignment = (last_op.before.alignment + last_op.arg) % 8
          /\ last_op.op \in {"take", "take_split", "tag"} =>
                last_op.prefix = I(SubSeq(last_op.before.data, 1, last_op.arg),
                                   last_op.before.alignment)
          /\ last_op.op = "take" => cursor_i = last_op.before
    /\ ( /\ last_op.op = "take_split"
         /\ last_op.arg = 3
         /\ last_op.before = I(DataOfTheTest, 0) )
       => /\ last_op.prefix = I(<<0, 1, 2>>, 0)
          /\ cursor_i = I(<<3, 4, 5, 6, 7, 8, 9, 10>>, 3)

\* Behind nine bytes of the test's slice, passed in several steps, the last
\* of them a take_split, the alignment has wrapped to 1.
C30_Witness ==
    /\ message_data = DataOfTheTest
    /\ last_op.op = "take_split"
    /\ last_op.st = "ok"
    /\ last_op.before.alignment = 7
    /\ last_op.arg = 2
    /\ cursor_i = I(<<9, 10>>, 1)

====
